---------------------------- MODULE Spec2Model ----------------------------
(***************************************************************************)
(* A model of the update-synchronization engine of tera-rust-launcher      *)
(* (teralaunch/src-tauri/src/main.rs): the path filter, the content        *)
(* hasher, the parallel diff pass get_files_to_update with its hash cache, *)
(* the sequential download_all_files / update_file, and the parallel       *)
(* manifest scan generate_hash_file.                                       *)
(*                                                                         *)
(* Strings are sequences of fragments: every fragment ("S1Game", "/",      *)
(* "Logs", ...) stands for the characters it spells, so string prefix and  *)
(* character counting are those of Sequences.  File contents are byte      *)
(* sequences; SHA-256 is an injective tagging of the bytes.                *)
(***************************************************************************)
EXTENDS Integers, Sequences, FiniteSets, TLC

(***************************************************************************)
(* Strings and the path filter (main.rs, is_ignored)                       *)
(***************************************************************************)

\* str.starts_with(prefix)
starts_with(s, prefix) ==
    /\ Len(prefix) <= Len(s)
    /\ SubSeq(s, 1, Len(prefix)) = prefix

\* str.replace("\\", "/")
replace_backslash(s) ==
    [k \in 1..Len(s) |-> IF s[k] = "\\" THEN "/" ELSE s[k]]

\* relative_path.chars().filter(|&c| c == '/').count()
count_slashes(s) ==
    Cardinality({k \in 1..Len(s) : s[k] = "/"})

\* The ignore list of generate_hash_file.
ignored_paths ==
    { <<"$Patch">>,
      <<"Binaries", "/", "cookies.dat">>,
      <<"S1Game", "/", "GuildFlagUpload">>,
      <<"S1Game", "/", "GuildLogoUpload">>,
      <<"S1Game", "/", "ImageCache">>,
      <<"S1Game", "/", "Logs">>,
      <<"S1Game", "/", "Screenshots">>,
      <<"S1Game", "/", "Config", "/", "S1Engine.ini">>,
      <<"S1Game", "/", "Config", "/", "S1Game.ini">>,
      <<"S1Game", "/", "Config", "/", "S1Input.ini">>,
      <<"S1Game", "/", "Config", "/", "S1Lightmass.ini">>,
      <<"S1Game", "/", "Config", "/", "S1Option.ini">>,
      <<"S1Game", "/", "Config", "/", "S1SystemSettings.ini">>,
      <<"S1Game", "/", "Config", "/", "S1TBASettings.ini">>,
      <<"S1Game", "/", "Config", "/", "S1UI.ini">>,
      <<"Launcher.exe">>,
      <<"local.db">>,
      <<"version.ini">>,
      <<"unins000.dat">>,
      <<"unins000.exe">> }

\* A mutant of is_ignored: the root-level test is dropped.
is_ignored_no_root(rel) ==
    \E ignored_path \in ignored_paths :
        starts_with(replace_backslash(rel), ignored_path)

\* is_ignored(path, game_path, ignored_paths), on the path relative to
\* game_path (strip_prefix) as the host spells it.
is_ignored(rel) ==
    LET relative_path == replace_backslash(rel) IN
    \/ count_slashes(relative_path) = 0
    \/ \E ignored_path \in ignored_paths :
           starts_with(relative_path, ignored_path)

(***************************************************************************)
(* Contents and the content hasher                                         *)
(***************************************************************************)

\* Sha256 digest, hex-formatted: injective on the byte sequences.
Sha256(bytes) == <<"sha256", bytes>>


\* A file of the local installation as the diff pass and the downloader see
\* it: kind "absent" (Path::exists is false), "nometa" (exists, but
\* fs::metadata fails), or "file" with its bytes, its modification time and
\* whether File::open succeeds.
Absent == [kind |-> "absent", content |-> <<>>, modified |-> 0, readable |-> FALSE]
NoMeta == [kind |-> "nometa", content |-> <<>>, modified |-> 0, readable |-> FALSE]
LocalFile(c, t, r) == [kind |-> "file", content |-> c, modified |-> t, readable |-> r]

\* A mutant of calculate_file_hash: only the first byte is hashed.
calculate_file_hash_first_byte(f) ==
    IF f.readable
    THEN [ok |-> TRUE, hash |-> Sha256(SubSeq(f.content, 1, 1))]
    ELSE [ok |-> FALSE, hash |-> <<>>]

\* calculate_file_hash(path): Err when the file cannot be opened, else the
\* digest of all its bytes.
calculate_file_hash(f) ==
    IF f.readable
    THEN [ok |-> TRUE, hash |-> Sha256(f.content)]
    ELSE [ok |-> FALSE, hash |-> <<>>]

(***************************************************************************)
(* Maps (HashMap<String, CachedFileInfo>)                                  *)
(***************************************************************************)
EmptyMap == [k \in {} |-> 0]

\* HashMap::insert
Insert(m, k, v) == [x \in (DOMAIN m) \cup {k} |-> IF x = k THEN v ELSE m[x]]

CachedFileInfo(h, t) == [hash |-> h, last_modified |-> t]

\* The cache file on disk: absent, not valid JSON, or a serialized map.
CacheFileAbsent == [state |-> "absent", map |-> EmptyMap]
CacheFileCorrupt == [state |-> "corrupt", map |-> EmptyMap]
CacheFileOf(m) == [state |-> "ok", map |-> m]

\* A mutant of load_cache_from_disk: a file that cannot be loaded yields a
\* map with an entry.
load_cache_from_disk_stale(cf) ==
    IF cf.state = "ok" THEN cf.map
    ELSE Insert(EmptyMap, <<"Client", "/", "a.gpk">>,
                CachedFileInfo(Sha256(<<1>>), 1))

\* load_cache_from_disk().unwrap_or_else(|_| HashMap::new())
load_cache_from_disk(cf) ==
    IF cf.state = "ok" THEN cf.map ELSE EmptyMap

\* save_cache_to_disk(cache): the outcomes of File::create and write_all.
\* "ok" replaces the whole file; "nocreate" leaves it as it was; "nowrite"
\* leaves a truncated file, which is not valid JSON.
save_cache_to_disk(cf, m, outcome) ==
    CASE outcome = "ok" -> CacheFileOf(m)
      [] outcome = "nocreate" -> cf
      [] OTHER -> CacheFileCorrupt

SaveOutcomes == {"ok", "nocreate", "nowrite"}

(***************************************************************************)
(* State                                                                   *)
(***************************************************************************)
VARIABLES
    fs,                     \* the local installation: relative path -> file
    cache_file,             \* file_cache.json beside the executable
    server,                 \* what the hash-file URL answers
    d_pc,                   \* get_files_to_update: "idle" or "par"
    files,                  \* server_hash_file["files"]
    cache,                  \* Arc<RwLock<HashMap<String, CachedFileInfo>>>
    lock,                   \* the RwLock: who holds a read guard, who the
                            \*   write guard (0: nobody)
    processed_count,        \* AtomicUsize
    files_to_update_count,  \* AtomicUsize
    total_size,             \* AtomicU64
    w_pc,                   \* per record: where its closure stands
    current_count,          \* per record: the closure's current_count,
                            \* kept while the closure still reads it
    cached_info,            \* per record: what cache_read.get(path) gave
    w_res,                  \* per record: the closure's Option<FileInfo>
    events,                 \* what window.emit was given, in order
    returned,               \* the values get_files_to_update returned
    log,                    \* what the error paths printed, in order
    plan,                   \* download_all_files: files_to_update
    dl_pc,                  \* download_all_files / update_file: where it stands
    dl,                     \* download_all_files: total_files, total_size,
                            \* index, downloaded_size, downloaded_sizes
    uf,                     \* update_file: file_size, downloaded, the
                            \* response stream, the two instants
    requests,               \* the URLs requested, in order
    dl_result,              \* what download_all_files returned
    s_pc,                   \* generate_hash_file: where it stands
    scan,                   \* generate_hash_file: total_files, the atomics
                            \* processed_files and total_size, the Vec files,
                            \* the first error of try_for_each
    sw,                     \* per directory entry: where its closure stands
                            \* and the locals it still reads
    hash_file,              \* hash-file.json at the installation root
    s_result,               \* what generate_hash_file returned
    is_launching,           \* GameState.is_launching: the flag under the Mutex
    launch_mutex,           \* the task that holds that Mutex (0: nobody)
    GAME_RUNNING,           \* teralib: the AtomicBool
    game_status,            \* teralib: the value in the watch channel
    WINDOW_HANDLE,          \* teralib: Mutex<Option<SafeHWND>>
    auth_info,              \* GLOBAL_AUTH_INFO.auth_key
    credentials,            \* GLOBAL_CREDENTIALS: the ticket
    tasks,                  \* the launch tasks spawned, in order
    launched,               \* what handle_launch_game returned last
    wnd                     \* the message wnd_proc handled last, and its outcome

\* The installation and the observer are shared by the three operations.
sharedVars == <<fs, events>>

diffVars == <<cache_file, server, d_pc, files, cache, lock, processed_count,
              files_to_update_count, total_size, w_pc, current_count,
              cached_info, w_res, returned, log>>

dlVars == <<plan, dl_pc, dl, uf, requests, dl_result>>

scanVars == <<s_pc, scan, sw, hash_file, s_result>>

launchVars == <<is_launching, launch_mutex, GAME_RUNNING, game_status,
                WINDOW_HANDLE, auth_info, credentials, tasks, launched>>

\* The launcher window's procedure runs on the window thread.
windowVars == <<wnd>>

vars == <<sharedVars, diffVars, dlVars, scanVars, launchVars, windowVars>>

\* What a launch leaves alone.
nonLaunchVars == <<sharedVars, diffVars, dlVars, scanVars, windowVars>>

\* What the diff pass leaves alone.
nonDiffVars == <<dlVars, scanVars, launchVars, windowVars>>

\* What the download leaves alone.
nonDlVars == <<diffVars, scanVars, launchVars, windowVars>>

\* What the manifest scan leaves alone.
nonScanVars == <<diffVars, dlVars, launchVars, windowVars>>

(***************************************************************************)
(* The diff pass: get_files_to_update                                      *)
(***************************************************************************)

FileInfo(p, h, sz, u) == [path |-> p, hash |-> h, size |-> sz, url |-> u]

\* The value a closure has before it read the cache, and the value of
\* cache_read.get(path) when the map holds no entry.
NoEntry == [present |-> FALSE, hash |-> <<>>, last_modified |-> 0]
SomeEntry(e) == [present |-> TRUE, hash |-> e.hash, last_modified |-> e.last_modified]

\* cache_read.get(path)
cache_get(m, path) == IF path \in DOMAIN m THEN SomeEntry(m[path]) ELSE NoEntry

\* A mutant of cache_hit: the modification time is not compared.
cache_hit_any_time(entry, lm, server_hash) ==
    entry.present /\ entry.hash = server_hash

\* A mutant of cache_hit: the hash is not compared.
cache_hit_any_hash(entry, lm, server_hash) ==
    entry.present /\ entry.last_modified = lm

\* if let Some(cached_info) = cache_read.get(path) { if let Some(lm) =
\* last_modified { cached_info.last_modified == lm && cached_info.hash ==
\* server_hash } }.  metadata.modified() succeeds on every platform the
\* launcher builds for, so last_modified is Some(lm).
cache_hit(entry, lm, server_hash) ==
    entry.present /\ entry.last_modified = lm /\ entry.hash = server_hash

\* A mutant of size_differs: the size pre-check never fires.
size_differs_never(f, size) == FALSE

\* metadata.len() != size
size_differs(f, size) == Len(f.content) # size

\* A mutant of before_write: the size pre-check comes before the lookup.
before_write_size_first(fi, f, entry) ==
    IF f.kind = "absent" THEN "some"
    ELSE IF f.kind = "nometa" THEN "some"
    ELSE IF size_differs(f, fi.size) THEN "some"
    ELSE IF cache_hit(entry, f.modified, fi.hash) THEN "none"
    ELSE IF ~calculate_file_hash(f).ok THEN "some"
    ELSE "hash"

\* The closure up to its cache write, for a record `fi`, the local file `f`
\* and the entry `entry` read under the read lock: "some" (return
\* Some(FileInfo)), "none" (return None) or "hash" (the local hash was
\* computed, the cache write and the comparison follow).
before_write(fi, f, entry) ==
    IF f.kind = "absent" THEN "some"
    ELSE IF f.kind = "nometa" THEN "some"
    ELSE IF cache_hit(entry, f.modified, fi.hash) THEN "none"
    ELSE IF size_differs(f, fi.size) THEN "some"
    ELSE IF ~calculate_file_hash(f).ok THEN "some"
    ELSE "hash"

\* A mutant of hashed_entry: the remote hash is stored.
hashed_entry_server_hash(fi, local_hash, lm) == CachedFileInfo(fi.hash, lm)

\* CachedFileInfo { hash: local_hash.clone(), last_modified }
hashed_entry(fi, local_hash, lm) == CachedFileInfo(local_hash, lm)

\* A mutant of after_write: the comparison is inverted.
after_write_inverted(fi, local_hash) ==
    IF local_hash # fi.hash THEN "none" ELSE "some"

\* if local_hash != server_hash { Some(FileInfo) } else { None }
after_write(fi, local_hash) ==
    IF local_hash # fi.hash THEN "some" ELSE "none"

\* A mutant of emits_progress: the cadence test alone.
emits_progress_cadence_only(count, n) == count % 100 = 0

\* current_count % 100 == 0 || current_count == files.len()
emits_progress(count, n) == count % 100 = 0 \/ count = n

RECURSIVE collect_reversed(_, _, _)
\* A mutant of collect: the Some values in the reverse order.
collect_reversed(fis, res, k) ==
    IF k = 0 THEN <<>>
    ELSE IF res[k] = "some"
         THEN <<fis[k]>> \o collect_reversed(fis, res, k - 1)
         ELSE collect_reversed(fis, res, k - 1)

RECURSIVE collect(_, _, _)
\* .filter_map(..).collect(): the Some values in the order of the records.
collect(fis, res, k) ==
    IF k = 0 THEN <<>>
    ELSE IF res[k] = "some"
         THEN Append(collect(fis, res, k - 1), fis[k])
         ELSE collect(fis, res, k - 1)

\* An f64 quotient num / den; den = 0 stands for NaN and the infinities.
Ratio(n, d) == [num |-> n, den |-> d]

Ok(v) == [ok |-> TRUE, value |-> v, error |-> ""]
Err(e) == [ok |-> FALSE, value |-> <<>>, error |-> e]

\* std::sync::RwLock: any number of read guards, or one write guard.
Unlocked == [readers |-> {}, writer |-> 0]

\* RwLock::read returns when no write guard is held.
can_read(l) == l.writer = 0

\* A mutant of can_write: the write guard is given while read guards are
\* held.
can_write_among_readers(l) == l.writer = 0

\* RwLock::write returns when no guard is held.
can_write(l) == l.readers = {} /\ l.writer = 0

\* A mutant of fetch_add: the addition is applied twice.
fetch_add_twice(v, n) == v + n + n

\* AtomicUsize::fetch_add(n, SeqCst), AtomicU64::fetch_add(n, SeqCst): the
\* value the atomic holds afterwards.  One indivisible step; the counts and
\* sizes of a pass stay far below the width of the atomics.
fetch_add(v, n) == v + n

Records == 1..Len(files)

\* game_path.join(path) as the host resolves it: either separator names
\* the same file, and exists(), fs::metadata and File::open follow a
\* symbolic link to the file it names.
local_file(path) ==
    LET spelled == IF path \in DOMAIN fs THEN {path}
                   ELSE {p \in DOMAIN fs :
                           replace_backslash(p) = replace_backslash(path)}
    IN IF spelled = {} THEN Absent
       ELSE LET f == fs[CHOOSE p \in spelled : TRUE] IN
            IF f.kind = "symlink" THEN [f EXCEPT !.kind = "file"] ELSE f

\* get_files_to_update up to the parallel iterator: the manifest is fetched
\* (get_server_hash_file), its "files" array taken, the cache loaded, the
\* counters created.  Both failures return Err at once.
DiffEnter ==
    IF server.tag = "unreachable"
    THEN /\ returned' = Append(returned, Err("request failed"))
         /\ UNCHANGED <<fs, cache_file, server, d_pc, files, cache,
                        processed_count, files_to_update_count, total_size,
                        w_pc, current_count, cached_info, w_res, events,
                        log>>
         /\ UNCHANGED <<lock, nonDiffVars>>
    ELSE IF server.tag = "noarray"
    THEN /\ returned' = Append(returned, Err("Invalid server hash file format"))
         /\ UNCHANGED <<fs, cache_file, server, d_pc, files, cache,
                        processed_count, files_to_update_count, total_size,
                        w_pc, current_count, cached_info, w_res, events,
                        log>>
         /\ UNCHANGED <<lock, nonDiffVars>>
    ELSE /\ files' = server.files
         /\ cache' = load_cache_from_disk(cache_file)
         /\ lock' = Unlocked
         /\ processed_count' = 0
         /\ files_to_update_count' = 0
         /\ total_size' = 0
         /\ w_pc' = [i \in 1..Len(server.files) |-> "count"]
         /\ current_count' = [i \in 1..Len(server.files) |-> 0]
         /\ cached_info' = [i \in 1..Len(server.files) |-> NoEntry]
         /\ w_res' = [i \in 1..Len(server.files) |-> "running"]
         /\ d_pc' = "par"
         /\ UNCHANGED <<fs, cache_file, server, events, returned, log>>
         /\ UNCHANGED nonDiffVars

\* The first call of get_files_to_update.
DiffCall ==
    /\ d_pc = "idle"
    /\ returned = <<>>
    /\ DiffEnter

\* let current_count = processed_count.fetch_add(1, SeqCst) + 1
W_Count(i) ==
    /\ d_pc = "par"
    /\ w_pc[i] = "count"
    /\ processed_count' = fetch_add(processed_count, 1)
    /\ LET count == fetch_add(processed_count, 1) IN
       IF emits_progress(count, Len(files))
       THEN /\ current_count' = [current_count EXCEPT ![i] = count]
            /\ w_pc' = [w_pc EXCEPT ![i] = "emit"]
       ELSE /\ current_count' = current_count
            /\ w_pc' = [w_pc EXCEPT ![i] = "check"]
    /\ UNCHANGED <<fs, cache_file, server, d_pc, files, cache,
                   files_to_update_count, total_size, cached_info, w_res,
                   events, returned, log>>
    /\ UNCHANGED <<lock, nonDiffVars>>

\* window.emit("file_check_progress", ..) with files_to_update loaded now.
W_Emit(i) ==
    /\ d_pc = "par"
    /\ w_pc[i] = "emit"
    /\ events' = Append(events,
          [name |-> "file_check_progress",
           current_file |-> files[i].path,
           current_count |-> current_count[i],
           total_files |-> Len(files),
           files_to_update |-> files_to_update_count,
           total_size |-> 0])
    /\ current_count' = [current_count EXCEPT ![i] = 0]
    /\ w_pc' = [w_pc EXCEPT ![i] = "check"]
    /\ UNCHANGED <<fs, cache_file, server, d_pc, files, cache,
                   processed_count, files_to_update_count, total_size,
                   cached_info, w_res, returned, log>>
    /\ UNCHANGED <<lock, nonDiffVars>>

\* exists() and fs::metadata; for a file with metadata, cache.read(): the
\* closure waits until no write guard is held.  A record without such a
\* file is decided here.  The installation does not change during the
\* pass, so only the lookup reads shared state.
W_Check(i) ==
    /\ d_pc = "par"
    /\ w_pc[i] = "check"
    /\ LET fi == files[i]
           f == local_file(fi.path)
           out == before_write(fi, f, NoEntry)
       IN IF f.kind = "file"
          THEN /\ can_read(lock)
               /\ lock' = [lock EXCEPT !.readers = @ \cup {i}]
               /\ w_pc' = [w_pc EXCEPT ![i] = "lookup"]
               /\ w_res' = w_res
          ELSE /\ lock' = lock
               /\ w_pc' = [w_pc EXCEPT ![i] = IF out = "some" THEN "add" ELSE "done"]
               /\ w_res' = [w_res EXCEPT ![i] = out]
    /\ UNCHANGED <<fs, cache_file, server, d_pc, files, cache,
                   processed_count, files_to_update_count, total_size,
                   current_count, cached_info, events, returned, log>>
    /\ UNCHANGED nonDiffVars

\* cache_read.get(path) and the comparison under the read guard; the guard
\* is dropped by return None or by drop(cache_read); then the size
\* pre-check and calculate_file_hash, which read no shared state.
W_Lookup(i) ==
    /\ d_pc = "par"
    /\ w_pc[i] = "lookup"
    /\ LET fi == files[i]
           f == local_file(fi.path)
           entry == cache_get(cache, fi.path)
           out == before_write(fi, f, entry)
       IN /\ cached_info' = [cached_info EXCEPT ![i] = entry]
          /\ w_pc' = [w_pc EXCEPT ![i] =
                        CASE out = "some" -> "add"
                          [] out = "none" -> "done"
                          [] OTHER -> "write"]
          /\ w_res' = [w_res EXCEPT ![i] =
                         IF out = "hash" THEN "running" ELSE out]
    /\ lock' = [lock EXCEPT !.readers = @ \ {i}]
    /\ UNCHANGED <<fs, cache_file, server, d_pc, files, cache,
                   processed_count, files_to_update_count, total_size,
                   current_count, events, returned, log>>
    /\ UNCHANGED nonDiffVars

\* cache.write(): the closure waits until no guard is held.
W_Write(i) ==
    /\ d_pc = "par"
    /\ w_pc[i] = "write"
    /\ can_write(lock)
    /\ lock' = [lock EXCEPT !.writer = i]
    /\ w_pc' = [w_pc EXCEPT ![i] = "insert"]
    /\ UNCHANGED <<fs, cache_file, server, d_pc, files, cache,
                   processed_count, files_to_update_count, total_size,
                   current_count, cached_info, w_res, events, returned, log>>
    /\ UNCHANGED nonDiffVars

\* insert {local_hash, last_modified} under the write guard and
\* drop(cache_write); then the comparison of local_hash with server_hash.
W_Insert(i) ==
    /\ d_pc = "par"
    /\ w_pc[i] = "insert"
    /\ LET fi == files[i]
           f == local_file(fi.path)
           local_hash == calculate_file_hash(f).hash
           out == after_write(fi, local_hash)
       IN /\ cache' = Insert(cache, fi.path, hashed_entry(fi, local_hash, f.modified))
          /\ w_pc' = [w_pc EXCEPT ![i] = IF out = "some" THEN "add" ELSE "done"]
          /\ w_res' = [w_res EXCEPT ![i] = out]
    /\ lock' = [lock EXCEPT !.writer = 0]
    /\ UNCHANGED <<fs, cache_file, server, d_pc, files, processed_count,
                   files_to_update_count, total_size, current_count,
                   cached_info, events, returned, log>>
    /\ UNCHANGED nonDiffVars

\* files_to_update_count.fetch_add(1); total_size.fetch_add(size): on each
\* path that returns Some(FileInfo).  Nothing reads total_size before the
\* iterator is drained, so the two additions are one step.
W_Add(i) ==
    /\ d_pc = "par"
    /\ w_pc[i] = "add"
    /\ files_to_update_count' = fetch_add(files_to_update_count, 1)
    /\ total_size' = fetch_add(total_size, files[i].size)
    /\ w_pc' = [w_pc EXCEPT ![i] = "done"]
    /\ UNCHANGED <<fs, cache_file, server, d_pc, files, cache,
                   processed_count, current_count, cached_info, w_res,
                   events, returned, log>>
    /\ UNCHANGED <<lock, nonDiffVars>>

\* After the iterator: the plan is collected, the cache saved (a failure is
\* only printed), file_check_completed emitted, Ok(files_to_update) returned.
DiffFinish ==
    /\ d_pc = "par"
    /\ \A i \in Records : w_pc[i] = "done"
    /\ can_read(lock)
    /\ LET files_to_update == collect(files, w_res, Len(files)) IN
       /\ \E outcome \in SaveOutcomes :
             /\ cache_file' = save_cache_to_disk(cache_file, cache, outcome)
             /\ log' = IF outcome = "ok" THEN log
                       ELSE Append(log, "Failed to save cache to disk")
       /\ events' = Append(events,
             [name |-> "file_check_completed",
              current_file |-> <<>>,
              current_count |-> 0,
              total_files |-> Len(files),
              files_to_update |-> Len(files_to_update),
              total_size |-> total_size])
       /\ returned' = Append(returned, Ok(files_to_update))
    /\ d_pc' = "idle"
    /\ UNCHANGED <<fs, server, files, cache, processed_count,
                   files_to_update_count, total_size, w_pc, current_count,
                   cached_info, w_res>>
    /\ UNCHANGED <<lock, nonDiffVars>>

(***************************************************************************)
(* The operations at rest                                                  *)
(***************************************************************************)

\* The locals of download_all_files and of update_file before a call.
DlLocals(n, total, i, done, sizes) ==
    [total_files |-> n, total_size |-> total, index |-> i,
     downloaded_size |-> done, downloaded_sizes |-> sizes]
UfLocals(size, got, now, last, stream, fails, status) ==
    [file_size |-> size, downloaded |-> got, elapsed |-> now,
     last_update |-> last, stream |-> stream, fails |-> fails,
     status |-> status]
DlNone == DlLocals(0, 0, 0, 0, <<>>)
UfNone == UfLocals(0, 0, 0, 0, <<>>, FALSE, 0)
NoResult == [ok |-> FALSE, value |-> <<>>, error |-> "pending"]

\* download_all_files is not part of the run.
DlOff ==
    /\ plan = <<>>
    /\ dl_pc = "off"
    /\ dl = DlNone
    /\ uf = UfNone
    /\ requests = <<>>
    /\ dl_result = NoResult

\* hash-file.json: absent, created but not written (empty), or the
\* serialized {"files": [...]}.
HashFileAbsent == [state |-> "absent", files |-> <<>>]
HashFileTruncated == [state |-> "truncated", files |-> <<>>]
HashFileOf(fis) == [state |-> "json", files |-> fis]

\* The locals of generate_hash_file before a call.
ScanLocals(n, processed, size, fis, failed) ==
    [total_files |-> n, processed_files |-> processed, total_size |-> size,
     files |-> fis, failed |-> failed]
ScanNone == ScanLocals(0, 0, 0, <<>>, {})

\* generate_hash_file is not part of the run.
ScanOff ==
    /\ s_pc = "off"
    /\ scan = ScanNone
    /\ sw = EmptyMap
    /\ hash_file = HashFileAbsent
    /\ s_result = NoResult

\* get_files_to_update is not part of the run.
DiffOff ==
    /\ cache_file = CacheFileAbsent
    /\ server = [tag |-> "unreachable", files |-> <<>>]
    /\ d_pc = "off"
    /\ files = <<>>
    /\ cache = EmptyMap
    /\ lock = Unlocked
    /\ processed_count = 0
    /\ files_to_update_count = 0
    /\ total_size = 0
    /\ w_pc = <<>>
    /\ current_count = <<>>
    /\ cached_info = <<>>
    /\ w_res = <<>>
    /\ returned = <<>>
    /\ log = <<>>

\* The window procedure has handled no message.
NoMessage == [task |-> 0, event |-> 0, payload |-> <<>>, sent |-> <<>>,
              ret |-> -1, panic |-> "none"]

\* No launch was asked for: the state main() and the statics start with.
LaunchOff ==
    /\ is_launching = FALSE
    /\ launch_mutex = 0
    /\ GAME_RUNNING = FALSE
    /\ game_status = FALSE
    /\ WINDOW_HANDLE = "None"
    /\ auth_info = ""
    /\ credentials = ""
    /\ tasks = <<>>
    /\ launched = NoResult
    /\ wnd = NoMessage

(***************************************************************************)
(* Inputs of the diff pass                                                 *)
(***************************************************************************)

\* The longest remote manifest.
MaxRecords == 2

\* A path the filter keeps, and a path at the installation root.
PathClient == <<"Client", "/", "a.gpk">>
PathRoot == <<"version.ini">>
DiffPaths == {PathClient, PathRoot}

DiffContents == {<<1>>, <<2>>, <<1, 1>>}
RemoteHashes == {Sha256(<<1>>), Sha256(<<2>>)}

\* The installation: every state of PathClient; PathRoot absent or current.
FileStates(p) ==
    IF p = PathClient
    THEN {Absent, NoMeta}
         \cup {LocalFile(c, 1, TRUE) : c \in DiffContents}
         \cup {LocalFile(c, 1, FALSE) : c \in {<<1>>, <<1, 1>>}}
    ELSE {Absent, LocalFile(<<1>>, 1, TRUE)}

\* The cache file: absent, unparsable, or a map with at most an entry for
\* PathClient, recorded at the file's modification time or at another one.
CacheFiles ==
    {CacheFileAbsent, CacheFileCorrupt}
    \cup {CacheFileOf(Insert(EmptyMap, PathClient, CachedFileInfo(h, t))) :
            h \in RemoteHashes, t \in {1, 2}}

UrlOf(p) == <<"http://files", "/files/">> \o p

\* The records a remote manifest may list.
RemoteRecords ==
    {FileInfo(PathClient, h, 1, UrlOf(PathClient)) : h \in RemoteHashes}
    \cup {FileInfo(PathClient, Sha256(<<1>>), 2, UrlOf(PathClient)),
          FileInfo(PathRoot, Sha256(<<1>>), 1, UrlOf(PathRoot))}

RemoteManifests ==
    UNION {[1..n -> RemoteRecords] : n \in 0..MaxRecords}

Servers ==
    {[tag |-> "unreachable", files |-> <<>>], [tag |-> "noarray", files |-> <<>>]}
    \cup {[tag |-> "ok", files |-> m] : m \in RemoteManifests}

DiffInit ==
    /\ fs \in {f \in [DiffPaths -> UNION {FileStates(p) : p \in DiffPaths}] :
                 \A p \in DiffPaths : f[p] \in FileStates(p)}
    /\ cache_file \in CacheFiles
    /\ server \in Servers
    /\ d_pc = "idle"
    /\ files = <<>>
    /\ cache = EmptyMap
    /\ lock = Unlocked
    /\ processed_count = 0
    /\ files_to_update_count = 0
    /\ total_size = 0
    /\ w_pc = <<>>
    /\ current_count = <<>>
    /\ cached_info = <<>>
    /\ w_res = <<>>
    /\ events = <<>>
    /\ returned = <<>>
    /\ log = <<>>
    /\ DlOff
    /\ ScanOff
    /\ LaunchOff

DiffNext ==
    \/ DiffCall
    \/ \E i \in Records : W_Count(i)
    \/ \E i \in Records : W_Emit(i)
    \/ \E i \in Records : W_Check(i)
    \/ \E i \in Records : W_Lookup(i)
    \/ \E i \in Records : W_Write(i)
    \/ \E i \in Records : W_Insert(i)
    \/ \E i \in Records : W_Add(i)
    \/ DiffFinish

\* One diff pass over every input.
SpecDiff == DiffInit /\ [][DiffNext]_vars

\* A second call of get_files_to_update, right after the first returned.
DiffRecall ==
    /\ d_pc = "idle"
    /\ Len(returned) = 1
    /\ DiffEnter

\* No path is listed twice.
DistinctPaths(m) ==
    \A i, j \in 1..Len(m) : m[i].path = m[j].path => i = j

RerunInit ==
    /\ DiffInit
    /\ DistinctPaths(server.files)

RerunNext ==
    \/ DiffNext
    \/ DiffRecall

\* Two diff passes in a row over manifests that list no path twice.
SpecRerun == RerunInit /\ [][RerunNext]_vars

(***************************************************************************)
(* The manifest scan: generate_hash_file                                   *)
(***************************************************************************)

\* What WalkDir (follow_links off) yields besides regular files: a
\* directory, a symbolic link to the regular file f, and an entry it could
\* not read (Err).
Dir == [kind |-> "dir", content |-> <<>>, modified |-> 1, readable |-> TRUE]
SymlinkTo(f) == [f EXCEPT !.kind = "symlink"]
WalkErr == [kind |-> "walkerr", content |-> <<>>, modified |-> 0, readable |-> FALSE]

\* The entries of the walk: the paths below game_path that exist.
Entries == {p \in DOMAIN fs : fs[p].kind # "absent"}

\* .filter_map(|e| e.ok())
entry_ok(f) == f.kind # "walkerr"

\* e.file_type().is_file(): the type of the entry itself.
file_type_is_file(f) == f.kind = "file"

\* path.is_file(): the type of what the path resolves to.
path_is_file(f) == f.kind \in {"file", "symlink"}

\* The first walk: the entries counted into total_files.
counted(p) ==
    /\ entry_ok(fs[p])
    /\ file_type_is_file(fs[p])
    /\ ~is_ignored(p)

\* The second walk: the entries the closure hashes.
processed(p) ==
    /\ path_is_file(fs[p])
    /\ ~is_ignored(p)

\* The locals of the closure of try_for_each for one entry.
SwLocals(pc, size, current_processed, loaded) ==
    [pc |-> pc, size |-> size, current_processed |-> current_processed,
     loaded |-> loaded]
SwAt(pc) == SwLocals(pc, 0, 0, 0)

\* json!({current_file, progress, processed_files, total_files, total_size})
HashFileProgress(rel, current_processed, n, size) ==
    [name |-> "hash_file_progress",
     current_file |-> rel,
     progress |-> Ratio(current_processed * 100, n),
     processed_files |-> current_processed,
     total_files |-> n,
     total_size |-> size]

\* A mutant of S_Fails: the error of the closure is dropped.
S_Fails_dropped(p, e) ==
    /\ scan' = scan
    /\ sw' = [sw EXCEPT ![p] = SwAt("done")]

\* The closure returns Err(e): try_for_each hands out no further entry.
S_Fails(p, e) ==
    /\ scan' = [scan EXCEPT !.failed = @ \cup {e}]
    /\ sw' = [sw EXCEPT ![p] = SwAt("done")]

\* generate_hash_file: get_game_path fails.
S_CallFails ==
    /\ s_pc = "idle"
    /\ s_pc' = "done"
    /\ s_result' = Err("config")
    /\ UNCHANGED <<fs, events, scan, sw, hash_file>>
    /\ UNCHANGED nonScanVars

\* generate_hash_file up to try_for_each: the first walk counts
\* total_files, the atomics and the Vec are created.
S_Call ==
    /\ s_pc = "idle"
    /\ scan' = ScanLocals(Cardinality({p \in Entries : counted(p)}),
                          0, 0, <<>>, {})
    /\ sw' = [p \in Entries |-> SwAt("todo")]
    /\ s_pc' = "par"
    /\ UNCHANGED <<fs, events, hash_file, s_result>>
    /\ UNCHANGED nonScanVars

\* The closure on one entry, up to files.blocking_lock(): the entry, the
\* two tests, std::fs::read, the digest and the size.
S_Take(p) ==
    /\ s_pc = "par"
    /\ sw[p].pc = "todo"
    /\ scan.failed = {}
    /\ IF ~entry_ok(fs[p])
       THEN S_Fails(p, "walk")
       ELSE IF processed(p)
            THEN IF fs[p].readable
                 THEN /\ sw' = [sw EXCEPT ![p] =
                                  SwLocals("push", Len(fs[p].content), 0, 0)]
                      /\ UNCHANGED scan
                 ELSE S_Fails(p, "io")
            ELSE /\ sw' = [sw EXCEPT ![p] = SwAt("done")]
                 /\ UNCHANGED scan
    /\ UNCHANGED <<fs, events, s_pc, hash_file, s_result>>
    /\ UNCHANGED nonScanVars

\* files.blocking_lock().push(FileInfo {path, hash, size, url})
S_Push(p) ==
    /\ sw[p].pc = "push"
    /\ LET relative_path == replace_backslash(p) IN
       scan' = [scan EXCEPT !.files =
                   Append(@, FileInfo(relative_path, Sha256(fs[p].content),
                                      sw[p].size, UrlOf(relative_path)))]
    /\ sw' = [sw EXCEPT ![p].pc = "add"]
    /\ UNCHANGED <<fs, events, s_pc, hash_file, s_result>>
    /\ UNCHANGED nonScanVars

\* total_size.fetch_add(size, Relaxed)
S_AddSize(p) ==
    /\ sw[p].pc = "add"
    /\ scan' = [scan EXCEPT !.total_size = @ + sw[p].size]
    /\ sw' = [sw EXCEPT ![p] = SwAt("count")]
    /\ UNCHANGED <<fs, events, s_pc, hash_file, s_result>>
    /\ UNCHANGED nonScanVars

\* current_processed = processed_files.fetch_add(1, Relaxed) + 1
S_Count(p) ==
    /\ sw[p].pc = "count"
    /\ scan' = [scan EXCEPT !.processed_files = @ + 1]
    /\ sw' = [sw EXCEPT ![p] =
                SwLocals("load", 0, scan.processed_files + 1, 0)]
    /\ UNCHANGED <<fs, events, s_pc, hash_file, s_result>>
    /\ UNCHANGED nonScanVars

\* total_size.load(Relaxed), while the payload is built
S_Load(p) ==
    /\ sw[p].pc = "load"
    /\ sw' = [sw EXCEPT ![p].pc = "emit", ![p].loaded = scan.total_size]
    /\ UNCHANGED <<fs, events, s_pc, scan, hash_file, s_result>>
    /\ UNCHANGED nonScanVars

\* window.emit("hash_file_progress", ...) succeeds.
S_Emit(p) ==
    /\ sw[p].pc = "emit"
    /\ events' = Append(events,
                    HashFileProgress(replace_backslash(p),
                                     sw[p].current_processed,
                                     scan.total_files, sw[p].loaded))
    /\ sw' = [sw EXCEPT ![p] = SwAt("done")]
    /\ UNCHANGED <<fs, s_pc, scan, hash_file, s_result>>
    /\ UNCHANGED nonScanVars

\* window.emit fails: the closure returns the error (?).
S_EmitFails(p) ==
    /\ sw[p].pc = "emit"
    /\ S_Fails(p, "emit")
    /\ UNCHANGED <<fs, events, s_pc, hash_file, s_result>>
    /\ UNCHANGED nonScanVars

\* No closure is running any more.
Quiet == \A p \in DOMAIN sw : sw[p].pc \in {"todo", "done"}

\* try_for_each returned Err(e): generate_hash_file returns it.
S_Abort ==
    /\ s_pc = "par"
    /\ Quiet
    /\ \E e \in scan.failed : s_result' = Err(e)
    /\ s_pc' = "done"
    /\ UNCHANGED <<fs, events, scan, sw, hash_file>>
    /\ UNCHANGED nonScanVars

\* try_for_each returned Ok: File::create or write_all fails.
S_WriteFails ==
    /\ s_pc = "par"
    /\ scan.failed = {}
    /\ \A p \in DOMAIN sw : sw[p].pc = "done"
    /\ \E h \in {hash_file, HashFileTruncated} : hash_file' = h
    /\ s_result' = Err("io")
    /\ s_pc' = "done"
    /\ UNCHANGED <<fs, events, scan, sw>>
    /\ UNCHANGED nonScanVars

\* try_for_each returned Ok: the manifest is written, the two atomics are
\* loaded and reported.
S_Finish ==
    /\ s_pc = "par"
    /\ scan.failed = {}
    /\ \A p \in DOMAIN sw : sw[p].pc = "done"
    /\ hash_file' = HashFileOf(scan.files)
    /\ s_result' = Ok(<<scan.processed_files, scan.total_size>>)
    /\ s_pc' = "done"
    /\ UNCHANGED <<fs, events, scan, sw>>
    /\ UNCHANGED nonScanVars

(***************************************************************************)
(* Inputs of the manifest scan                                             *)
(***************************************************************************)

\* The installation as a Windows host spells it.
HostDir == <<"Client">>
HostClient == <<"Client", "\\", "a.gpk">>
HostData == <<"S1Game", "\\", "b.gpk">>
HostLog == <<"S1Game", "\\", "Logs", "\\", "a.log">>
HostLoose == <<"readme.txt">>
ScanPaths == {HostDir, HostClient, HostData, HostLog, HostLoose}

TreeStates(p) ==
    IF p = HostDir THEN {Dir, WalkErr}
    ELSE IF p = HostClient
    THEN {Absent, LocalFile(<<1>>, 1, TRUE), LocalFile(<<1, 1>>, 1, TRUE),
          LocalFile(<<1>>, 1, FALSE), SymlinkTo(LocalFile(<<2>>, 1, TRUE))}
    ELSE IF p = HostData
    THEN {Absent, LocalFile(<<2>>, 1, TRUE), LocalFile(<<1, 2>>, 1, TRUE)}
    ELSE {Absent, LocalFile(<<1>>, 1, TRUE)}

\* The trees: a directory that cannot be read shows no entry below it.
Trees ==
    {f \in [ScanPaths -> UNION {TreeStates(p) : p \in ScanPaths}] :
        /\ \A p \in ScanPaths : f[p] \in TreeStates(p)
        /\ f[HostDir] = WalkErr => f[HostClient] = Absent}

ScanInit ==
    /\ fs \in Trees
    /\ events = <<>>
    /\ s_pc = "idle"
    /\ scan = ScanNone
    /\ sw = EmptyMap
    /\ hash_file \in {HashFileAbsent, HashFileOf(<<>>)}
    /\ s_result = NoResult
    /\ DiffOff
    /\ DlOff
    /\ LaunchOff

ScanNext ==
    \/ S_CallFails
    \/ S_Call
    \/ \E p \in DOMAIN sw : S_Take(p)
    \/ \E p \in DOMAIN sw : S_Push(p)
    \/ \E p \in DOMAIN sw : S_AddSize(p)
    \/ \E p \in DOMAIN sw : S_Count(p)
    \/ \E p \in DOMAIN sw : S_Load(p)
    \/ \E p \in DOMAIN sw : S_Emit(p)
    \/ \E p \in DOMAIN sw : S_EmitFails(p)
    \/ S_Abort
    \/ S_WriteFails
    \/ S_Finish

\* One call of generate_hash_file over every tree.
SpecScan == ScanInit /\ [][ScanNext]_vars

(***************************************************************************)
(* Properties of the diff pass                                             *)
(***************************************************************************)

\* The value of the last call, once it has returned.
Returned == d_pc = "idle" /\ returned # <<>>
LastReturned == returned[Len(returned)]

\* The decision ladder of the update planner for a record, the local file
\* and the cache entry found at lookup.
LadderIncludes(fi, f, entry) ==
    IF f.kind = "absent" THEN TRUE
    ELSE IF f.kind = "nometa" THEN TRUE
    ELSE IF /\ entry.present
            /\ entry.last_modified = f.modified
            /\ entry.hash = fi.hash THEN FALSE
    ELSE IF Len(f.content) # fi.size THEN TRUE
    ELSE ~f.readable \/ Sha256(f.content) # fi.hash

\* C1: every record is decided by the first step of the ladder that
\* applies: absent, metadata unreadable, cache entry with the file's
\* modification time and the remote hash (exclude), size differs, and last
\* the hash comparison (a file that cannot be hashed has no hash equal to
\* the remote one).
C1_DecisionLadder ==
    d_pc = "par" =>
        \A i \in Records :
            w_res[i] # "running" =>
                (w_res[i] = "some") =
                    LadderIncludes(files[i], fs[files[i].path], cached_info[i])

\* A pass returned in which one record was excluded by its cache entry and
\* another was hashed and included.
C1_Witness ==
    /\ Returned
    /\ LastReturned.ok
    /\ \E i, j \in Records :
          /\ cached_info[i].present
          /\ w_res[i] = "none"
          /\ cached_info[i].hash = files[i].hash
          /\ w_res[j] = "some"
          /\ fs[files[j].path].kind = "file"
          /\ fs[files[j].path].readable
          /\ Len(fs[files[j].path].content) = files[j].size

\* The records a plan holds when record i is selected exactly when sel[i].
PlanWhere(sel) ==
    collect(files, [i \in Records |-> IF sel[i] THEN "some" ELSE "none"],
            Len(files))

C8_PlanIsFiltered ==
    (Returned /\ LastReturned.ok) =>
        \A k \in 1..Len(LastReturned.value) :
            ~is_ignored(LastReturned.value[k].path)

\* C10 as stated: a local file whose size differs from the remote size is
\* put in the plan, whatever the cache holds for it.
C10_SizeChangeDetected ==
    d_pc = "par" =>
        \A i \in Records :
            LET f == fs[files[i].path] IN
            (w_res[i] # "running" /\ f.kind = "file"
                /\ Len(f.content) # files[i].size)
            => w_res[i] = "some"

\* Every record of plan p is a record of plan q.
SubPlan(p, q) ==
    \A k \in 1..Len(p) : \E j \in 1..Len(q) : q[j] = p[k]

\* C9 as stated: the second of two passes in a row returns an empty plan.
C9_SecondPlanEmpty ==
    (Len(returned) = 2 /\ returned[1].ok /\ returned[2].ok) =>
        returned[2].value = <<>>

\* C9, amended: over a manifest that lists no path twice, the second of
\* two passes in a row returns every record of the first plan, and exactly
\* the first plan when the first pass saved its cache.
C9_SecondPlanRepeatsFirst ==
    /\ (Len(returned) = 2 /\ returned[1].ok /\ returned[2].ok) =>
           SubPlan(returned[1].value, returned[2].value)
    /\ (/\ d_pc = "par"
        /\ Len(returned) = 1
        /\ returned[1].ok
        /\ log = <<>>
        /\ \A i \in Records : w_pc[i] = "done") =>
           collect(files, w_res, Len(files)) = returned[1].value

\* Two passes returned, the first with a non-empty plan and a saved cache
\* that the second pass used.
C9_Witness ==
    /\ Len(returned) = 2
    /\ returned[1].ok
    /\ returned[2].ok
    /\ returned[1].value # <<>>
    /\ \E i \in Records : cached_info[i].present
    /\ cache_file.state = "ok"

(***************************************************************************)
(* The download: download_all_files and update_file                        *)
(***************************************************************************)

\* A mutant of sum_sizes: only the first record is counted.
sum_sizes_first(fis, k) == IF k = 0 THEN 0 ELSE fis[1].size

RECURSIVE sum_sizes(_, _)
\* files_to_update.iter().map(|f| f.size).sum()
sum_sizes(fis, k) ==
    IF k = 0 THEN 0 ELSE sum_sizes(fis, k - 1) + fis[k].size

\* Option<u64>
None == [some |-> FALSE, value |-> 0]
Some(v) == [some |-> TRUE, value |-> v]

\* res.content_length().unwrap_or(file_info.size)
unwrap_or_size(content_length, size) ==
    IF content_length.some THEN content_length.value ELSE size

\* Duration::from_millis(100)
ProgressIntervalMs == 100

\* A mutant of emits_download_progress: every chunk is reported.
emits_download_progress_always(now, last_update, downloaded, file_size) ==
    TRUE

\* now.duration_since(last_update) >= 100 ms || downloaded == file_size
emits_download_progress(now, last_update, downloaded, file_size) ==
    now - last_update >= ProgressIntervalMs \/ downloaded = file_size

\* if elapsed.as_secs() > 0 { downloaded / elapsed.as_secs() } else { downloaded }
speed_of(elapsed, downloaded) ==
    LET secs == elapsed \div 1000 IN
    IF secs > 0 THEN downloaded \div secs ELSE downloaded

\* (downloaded as f64 / file_size as f64) * 100.0
progress_of(downloaded, file_size) == Ratio(downloaded * 100, file_size)

\* ProgressPayload, without elapsed_time: a clock reading that nothing in
\* the launcher reads back.
ProgressPayload(fi, progress, speed, downloaded_bytes) ==
    [name |-> "download_progress",
     file_name |-> fi.path,
     progress |-> progress,
     speed |-> speed,
     downloaded_bytes |-> downloaded_bytes,
     total_bytes |-> dl.total_size,
     total_files |-> dl.total_files,
     current_file_index |-> dl.index]

\* A mutant of DownloadComplete: the event goes out under another name.
DownloadComplete_misnamed == [name |-> "download_finished"]

\* window.emit("download_complete", ())
DownloadComplete == [name |-> "download_complete"]

\* A mutant of hash_matches: the downloaded hash is not compared.
hash_matches_always(downloaded_hash, expected) == TRUE

\* !(downloaded_hash != file_info.hash)
hash_matches(downloaded_hash, expected) == downloaded_hash = expected

\* A mutant of next_index: the loop skips a file.
next_index_skips(index) == index + 2

\* .enumerate(): the index of the next file of the plan.
next_index(index) == index + 1

\* The file under download and its destination.
CurrentFile == plan[dl.index]

\* What the file server may answer to one GET: the status, the
\* Content-Length header, the body in chunks, and whether the stream breaks
\* after them.
Response(status, content_length, chunks, fails) ==
    [status |-> status, content_length |-> content_length,
     chunks |-> chunks, fails |-> fails]

Responses ==
    { Response(200, Some(2), << <<1, 1>> >>, FALSE),
      Response(200, Some(2), << <<1>>, <<1>> >>, FALSE),
      Response(200, None, << <<1>>, <<1>> >>, FALSE),
      Response(200, Some(1), << <<1>> >>, FALSE),
      Response(200, Some(1), << <<2>> >>, FALSE),
      Response(404, Some(1), << <<2>> >>, FALSE),
      Response(200, Some(2), << <<1>> >>, TRUE),
      Response(200, None, <<>>, FALSE) }

\* The time between two readings of Instant::now() in the chunk loop, in
\* ms: the loop sleeps 1 ms after every chunk.
Delays == {60, 100, 2000}

\* The modification time a written file gets.
WrittenAt == 2

\* update_file returned Err(e): download_all_files returns it at once (?).
UF_Fails(e) ==
    /\ dl_result' = Err(e)
    /\ dl_pc' = "done"

\* download_all_files up to its loop; an empty plan emits
\* download_complete and returns at once.
DL_Call ==
    /\ dl_pc = "idle"
    /\ LET total_files == Len(plan)
           total == sum_sizes(plan, Len(plan))
       IN IF total_files = 0
          THEN /\ events' = Append(events, DownloadComplete)
               /\ dl_result' = Ok(<<>>)
               /\ dl_pc' = "done"
               /\ dl' = DlLocals(total_files, total, 0, 0, <<>>)
          ELSE /\ dl' = DlLocals(total_files, total, 1, 0, <<>>)
               /\ dl_pc' = "file"
               /\ UNCHANGED <<events, dl_result>>
    /\ UNCHANGED <<fs, plan, uf, requests>>
    /\ UNCHANGED nonDlVars

\* update_file fails before the request: get_game_path, create_dir_all(parent)
\* or the client builder returns an error.
UF_DirFails ==
    /\ dl_pc = "file"
    /\ UF_Fails("io")
    /\ UNCHANGED <<fs, events, plan, dl, uf, requests>>
    /\ UNCHANGED nonDlVars

\* update_file: client.get(url).send() fails.
UF_SendFails ==
    /\ dl_pc = "file"
    /\ requests' = Append(requests, CurrentFile.url)
    /\ UF_Fails("network")
    /\ UNCHANGED <<fs, events, plan, dl, uf>>
    /\ UNCHANGED nonDlVars

\* update_file: the response arrived, File::create(file_path) fails.
UF_CreateFails ==
    /\ dl_pc = "file"
    /\ requests' = Append(requests, CurrentFile.url)
    /\ UF_Fails("io")
    /\ UNCHANGED <<fs, events, plan, dl, uf>>
    /\ UNCHANGED nonDlVars

\* update_file: the response arrived (its status is not read), file_size is
\* taken, File::create truncates the destination, the two instants are read.
UF_Respond ==
    /\ dl_pc = "file"
    /\ requests' = Append(requests, CurrentFile.url)
    /\ \E r \in Responses :
          uf' = UfLocals(unwrap_or_size(r.content_length, CurrentFile.size),
                         0, 0, 0, r.chunks, r.fails, r.status)
    /\ fs' = [fs EXCEPT ![CurrentFile.path] = LocalFile(<<>>, WrittenAt, TRUE)]
    /\ dl_pc' = "stream"
    /\ UNCHANGED <<events, plan, dl, dl_result>>
    /\ UNCHANGED nonDlVars

\* One turn of the chunk loop: write_all, downloaded += len, and the
\* throttled download_progress.
UF_Chunk ==
    /\ dl_pc = "stream"
    /\ uf.stream # <<>>
    /\ \E dt \in Delays :
          LET chunk == Head(uf.stream)
              downloaded == uf.downloaded + Len(chunk)
              now == uf.elapsed + dt
              emits == emits_download_progress(now, uf.last_update,
                                               downloaded, uf.file_size)
          IN /\ fs' = [fs EXCEPT ![CurrentFile.path] =
                         LocalFile(@.content \o chunk, WrittenAt, TRUE)]
             /\ uf' = [uf EXCEPT !.stream = Tail(@),
                                 !.downloaded = downloaded,
                                 !.elapsed = now,
                                 !.last_update = IF emits THEN now ELSE @]
             /\ events' =
                   IF emits
                   THEN Append(events,
                          ProgressPayload(CurrentFile,
                              progress_of(downloaded, uf.file_size),
                              speed_of(now, downloaded),
                              dl.downloaded_size + downloaded))
                   ELSE events
    /\ UNCHANGED <<plan, dl_pc, dl, requests, dl_result>>
    /\ UNCHANGED nonDlVars

\* file.write_all(&chunk) fails.
UF_WriteFails ==
    /\ dl_pc = "stream"
    /\ uf.stream # <<>>
    /\ UF_Fails("io")
    /\ UNCHANGED <<fs, events, plan, dl, uf, requests>>
    /\ UNCHANGED nonDlVars

\* stream.next() yields Err: the connection broke.
UF_StreamFails ==
    /\ dl_pc = "stream"
    /\ uf.stream = <<>>
    /\ uf.fails
    /\ UF_Fails("network")
    /\ UNCHANGED <<fs, events, plan, dl, uf, requests>>
    /\ UNCHANGED nonDlVars

\* The stream ended: file.flush() fails, or the written file cannot be
\* hashed (the blocking task or calculate_file_hash returns an error).
UF_FlushFails ==
    /\ dl_pc = "stream"
    /\ uf.stream = <<>>
    /\ ~uf.fails
    /\ UF_Fails("io")
    /\ UNCHANGED <<fs, events, plan, dl, uf, requests>>
    /\ UNCHANGED nonDlVars

\* The stream ended: flush, hash the written file, compare with the
\* manifest hash; on a match the final download_progress and Ok(downloaded).
UF_Verify ==
    /\ dl_pc = "stream"
    /\ uf.stream = <<>>
    /\ ~uf.fails
    /\ LET downloaded_hash == calculate_file_hash(fs[CurrentFile.path]).hash IN
       IF hash_matches(downloaded_hash, CurrentFile.hash)
       THEN /\ events' = Append(events,
                  ProgressPayload(CurrentFile, Ratio(100, 1), 0,
                      dl.downloaded_size + uf.downloaded))
            /\ dl_pc' = "advance"
            /\ UNCHANGED dl_result
       ELSE /\ UF_Fails("Hash mismatch for file")
            /\ UNCHANGED events
    /\ UNCHANGED <<fs, plan, dl, uf, requests>>
    /\ UNCHANGED nonDlVars

\* download_all_files after update_file returned Ok(file_size): the two
\* accumulators, then the next file, or download_complete and Ok.
DL_Advance ==
    /\ dl_pc = "advance"
    /\ LET sizes == Append(dl.downloaded_sizes, uf.downloaded)
           done == dl.downloaded_size + uf.downloaded
           next == next_index(dl.index)
       IN /\ dl' = [dl EXCEPT !.downloaded_size = done,
                              !.downloaded_sizes = sizes,
                              !.index = next]
          /\ IF next > dl.total_files
             THEN /\ events' = Append(events, DownloadComplete)
                  /\ dl_result' = Ok(sizes)
                  /\ dl_pc' = "done"
             ELSE /\ dl_pc' = "file"
                  /\ UNCHANGED <<events, dl_result>>
    /\ uf' = UfNone
    /\ UNCHANGED <<fs, plan, requests>>
    /\ UNCHANGED nonDlVars

(***************************************************************************)
(* Inputs of the download                                                  *)
(***************************************************************************)

\* The longest plan.
MaxPlan == 2

PathData == <<"S1Game", "/", "b.gpk">>
DlPaths == {PathClient, PathData}

\* Two records whose size is that of the content their hash names, and one
\* whose size understates it.
PlanRecords ==
    { FileInfo(PathClient, Sha256(<<1, 1>>), 2, UrlOf(PathClient)),
      FileInfo(PathData, Sha256(<<1>>), 1, UrlOf(PathData)),
      FileInfo(PathClient, Sha256(<<1, 1>>), 1, UrlOf(PathClient)) }

Plans == UNION {[1..n -> PlanRecords] : n \in 0..MaxPlan}

DlInit ==
    /\ fs \in {f \in [DlPaths -> {Absent, LocalFile(<<2>>, 1, TRUE)}] :
                 f[PathData] = Absent}
    /\ events = <<>>
    /\ plan \in Plans
    /\ dl_pc = "idle"
    /\ dl = DlNone
    /\ uf = UfNone
    /\ requests = <<>>
    /\ dl_result = NoResult
    /\ DiffOff
    /\ ScanOff
    /\ LaunchOff

DlNext ==
    \/ DL_Call
    \/ UF_DirFails
    \/ UF_SendFails
    \/ UF_CreateFails
    \/ UF_Respond
    \/ UF_Chunk
    \/ UF_WriteFails
    \/ UF_StreamFails
    \/ UF_FlushFails
    \/ UF_Verify
    \/ DL_Advance

\* One call of download_all_files over every plan and every server.
SpecDownload == DlInit /\ [][DlNext]_vars

(***************************************************************************)
(* Properties of the download                                              *)
(***************************************************************************)

\* update_file has read the whole body of the current file without an
\* input/output error and has left the chunk loop.
StreamEnded ==
    /\ dl.index \in 1..Len(plan)
    /\ dl_pc \in {"advance", "done"}
    /\ uf # UfNone
    /\ uf.stream = <<>>
    /\ ~uf.fails
    /\ dl_result.error # "io"

\* The bytes written for the current file do not hash to the manifest hash.
HashDiffers ==
    /\ StreamEnded
    /\ Sha256(fs[CurrentFile.path].content) # CurrentFile.hash

IsProgress(e) == e.name = "download_progress"

\* The events of the file at position i of the plan.
EventsOf(i) ==
    {k \in 1..Len(events) :
        IsProgress(events[k]) /\ events[k].current_file_index = i}

\* C3: when the hash of a downloaded file differs from the manifest hash,
\* download_all_files has returned the hash-mismatch error, has requested
\* no file after this one, and has emitted no download_complete.
C3_MismatchAborts ==
    HashDiffers =>
        /\ dl_pc = "done"
        /\ dl_result = Err("Hash mismatch for file")
        /\ Len(requests) = dl.index
        /\ \A k \in 1..Len(events) : events[k] # DownloadComplete

\* A first file of a longer plan was received whole, with bytes that hash
\* to another value than the manifest's.
C3_Witness ==
    /\ HashDiffers
    /\ dl.index = 1
    /\ Len(plan) = 2
    /\ uf.downloaded = CurrentFile.size

\* The event reports its file at 100 percent.
Reports100(e) ==
    /\ IsProgress(e)
    /\ e.progress.den > 0
    /\ e.progress.num = 100 * e.progress.den

\* C4, as stated: for a file whose bytes hash to another value than the
\* manifest hash, no download_progress event reports the file at 100
\* percent.
C4_No100OnMismatch ==
    HashDiffers => \A k \in EventsOf(dl.index) : ~Reports100(events[k])

\* C4, amended: once the body of such a file has been read, update_file
\* emits no further event and returns no byte count for it; the event at
\* 100 percent of the chunk loop, emitted before the verification when the
\* received count reaches the expected size, is the only one there can be.
C4_NoEventAfterMismatch ==
    [][(/\ dl_pc = "stream"
        /\ uf.stream = <<>>
        /\ ~uf.fails
        /\ Sha256(fs[CurrentFile.path].content) # CurrentFile.hash)
       => (/\ events' = events
           /\ dl_pc' = "done"
           /\ ~dl_result'.ok)]_vars

\* The chunk loop reported 100 percent for a file that then failed its
\* verification.
C4_Witness ==
    /\ HashDiffers
    /\ dl_result = Err("Hash mismatch for file")
    /\ \E k \in EventsOf(dl.index) : Reports100(events[k])
    /\ events[Len(events)].speed # 0

\* The file at position i of the plan is installed with the manifest hash
\* and its terminal event is the last event.
JustCompleted(i) ==
    /\ Sha256(fs[plan[i].path].content) = plan[i].hash
    /\ Len(dl.downloaded_sizes) = i
    /\ events # <<>>
    /\ events[Len(events)] =
          [ProgressPayload(plan[i], Ratio(100, 1), 0, dl.downloaded_size)
             EXCEPT !.current_file_index = i]

\* C5: the files are transferred one at a time in plan order: the requests
\* are those of a prefix of the plan, the request for a file is sent only
\* when the file before it is written, verified and its terminal event
\* emitted, and the events name the files in plan order.
C5_OneAtATimeInPlanOrder ==
    /\ \A k \in 1..Len(requests) : requests[k] = plan[k].url
    /\ dl_pc = "file" =>
          /\ Len(requests) = dl.index - 1
          /\ dl.index > 1 => JustCompleted(dl.index - 1)
    /\ dl_pc \in {"stream", "advance"} =>
          /\ Len(requests) = dl.index
          /\ Len(dl.downloaded_sizes) = dl.index - 1
    /\ \A i, j \in 1..Len(events) :
          (i < j /\ IsProgress(events[i]) /\ IsProgress(events[j])) =>
              events[i].current_file_index <= events[j].current_file_index
    /\ dl_result.ok =>
          /\ Len(requests) = Len(plan)
          /\ Len(dl_result.value) = Len(plan)

\* Two different files were downloaded, one after the other.
C5_Witness ==
    /\ dl_result.ok
    /\ Len(plan) = 2
    /\ plan[1].path # plan[2].path
    /\ Len(requests) = 2

(***************************************************************************)
(* Properties of the manifest scan                                         *)
(***************************************************************************)

\* The non-excluded regular files of the tree.
RegularFiles == {p \in Entries : fs[p].kind = "file" /\ ~is_ignored(p)}

RECURSIVE SizeOfAll(_)
\* The sum of the sizes of a set of files.
SizeOfAll(ps) ==
    IF ps = {} THEN 0
    ELSE LET p == CHOOSE q \in ps : TRUE
         IN Len(fs[p].content) + SizeOfAll(ps \ {p})

\* C6: after generate_hash_file succeeds on a tree with N non-excluded
\* regular files, processed_files is N and total_size is the sum of their
\* sizes, whatever the interleaving of the closures.
C6_CountersExact ==
    s_result.ok =>
        /\ scan.processed_files = Cardinality(RegularFiles)
        /\ scan.total_size = SizeOfAll(RegularFiles)
        /\ s_result.value = <<Cardinality(RegularFiles), SizeOfAll(RegularFiles)>>

\* The record's path is neither at the root nor under an ignored prefix.
Filtered(path) ==
    /\ count_slashes(path) > 0
    /\ \A ignored_path \in ignored_paths : ~starts_with(path, ignored_path)

\* C7: no record of a manifest produced by generate_hash_file has a path at
\* the installation root or a slash-normalized path that starts with a
\* prefix of the ignore set.
C7_ManifestIsFiltered ==
    /\ \A k \in 1..Len(scan.files) : Filtered(scan.files[k].path)
    /\ \A k \in 1..Len(hash_file.files) : Filtered(hash_file.files[k].path)

\* A manifest was written for a tree that holds a file at the root and a
\* file under S1Game/Logs beside the files it lists.
C7_Witness ==
    /\ s_result.ok
    /\ Len(hash_file.files) = 2
    /\ fs[HostLoose].kind = "file"
    /\ fs[HostLog].kind = "file"

(***************************************************************************)
(* The hash cache across the operations                                    *)
(***************************************************************************)

\* C11: after download_all_files succeeds, the persistent hash cache holds,
\* for every file of the plan, an entry whose hash is the manifest hash of
\* that file.
C11_CacheHoldsVerifiedHashes ==
    dl_result.ok =>
        \A k \in 1..Len(plan) :
            /\ plan[k].path \in DOMAIN cache_file.map
            /\ cache_file.map[plan[k].path].hash = plan[k].hash

\* The closure of record i could not read the local file it had to hash.
HashReadFailed(i) ==
    LET fi == files[i]
        f == fs[fi.path]
    IN /\ f.kind = "file"
       /\ ~cache_hit(cached_info[i], f.modified, fi.hash)
       /\ ~size_differs(f, fi.size)
       /\ ~calculate_file_hash(f).ok

\* C12: a local file that cannot be read while it is hashed, or a cache
\* file that cannot be written at the end, makes get_files_to_update return
\* an error instead of a plan.
C12_LocalIoFailureIsReturned ==
    (Returned /\ LastReturned.ok) =>
        /\ log = <<>>
        /\ \A i \in Records : ~HashReadFailed(i)

\* What the closure returns for a record when the cache holds no entry.
EmptyCacheOutcome(fi, f) ==
    LET out == before_write(fi, f, NoEntry) IN
    IF out = "hash" THEN after_write(fi, calculate_file_hash(f).hash) ELSE out

\* C13: when the cache file is absent or cannot be parsed, the pass runs as
\* with an empty cache: the cache holds only what this pass hashed, every
\* record of a manifest without repeated path is decided as with no entry,
\* and the pass does not fail once the manifest is fetched.
C13_BrokenCacheIsEmptyCache ==
    /\ (d_pc = "par" /\ cache_file.state \in {"absent", "corrupt"}) =>
          /\ \A p \in DOMAIN cache :
                cache[p] = CachedFileInfo(Sha256(fs[p].content), fs[p].modified)
          /\ \A i \in Records :
                ~cached_info[i].present \/ ~DistinctPaths(files)
          /\ DistinctPaths(files) =>
                \A i \in Records :
                    w_res[i] # "running" =>
                        w_res[i] = EmptyCacheOutcome(files[i], fs[files[i].path])
    /\ (Returned /\ server.tag = "ok") => LastReturned.ok

\* A pass over an unparsable cache file has decided two records, one
\* included and one hashed and excluded.
C13_Witness ==
    /\ d_pc = "par"
    /\ cache_file.state = "corrupt"
    /\ Len(files) = 2
    /\ DistinctPaths(files)
    /\ \A i \in Records : w_pc[i] = "done"
    /\ \E i, j \in Records : w_res[i] = "some" /\ w_res[j] = "none"

(***************************************************************************)
(* The manifest that the scan writes                                       *)
(***************************************************************************)

\* The record of the file at host path p.
RecordOf(p) ==
    FileInfo(replace_backslash(p), Sha256(fs[p].content), Len(fs[p].content),
             UrlOf(replace_backslash(p)))

\* C14: on success the manifest holds exactly one record for every regular
\* file that the path filter keeps, and no other record.
C14_ManifestIsExact ==
    s_result.ok =>
        /\ Len(hash_file.files) = Cardinality(RegularFiles)
        /\ {hash_file.files[k] : k \in 1..Len(hash_file.files)}
              = {RecordOf(p) : p \in RegularFiles}

\* The closure of some entry could not read the file it had to hash.
ReadFailed ==
    /\ s_pc \in {"par", "done"}
    /\ \E p \in DOMAIN sw :
          /\ processed(p)
          /\ ~fs[p].readable
          /\ sw[p].pc = "done"

\* C15: once reading a file has failed, generate_hash_file returns nothing
\* but an error and hash-file.json is left as it was.
C15_ReadFailureWritesNothing ==
    /\ [](ReadFailed => (s_pc = "done" => ~s_result.ok))
    /\ [][ReadFailed => hash_file' = hash_file]_vars

\* The scan has ended on a file it could not read, after it had pushed the
\* record of another file.
C15_Witness ==
    /\ ReadFailed
    /\ s_pc = "done"
    /\ Len(scan.files) >= 1

(***************************************************************************)
(* The completion of the download                                          *)
(***************************************************************************)

\* The positions of the download_complete events.
Completions == {k \in 1..Len(events) : events[k].name = "download_complete"}

\* C16: download_all_files called with an empty plan returns an empty
\* result, emits download_complete once, emits no download_progress event
\* and issues no request.
C16_EmptyPlan ==
    Len(plan) = 0 =>
        /\ requests = <<>>
        /\ \A k \in 1..Len(events) : ~IsProgress(events[k])
        /\ dl_pc = "done" =>
              /\ dl_result = Ok(<<>>)
              /\ Len(events) = 1
              /\ Completions = {1}

\* The call with an empty plan has returned.
C16_Witness ==
    /\ Len(plan) = 0
    /\ dl_pc = "done"
    /\ dl_result.ok

\* The number of bytes of the content that a manifest hash names.
VerifiedLen(hash) == Len(hash[2])

\* C17: when every file of a non-empty plan downloads and verifies,
\* download_complete is emitted once, right after the terminal progress
\* event of the last file, and the result holds one byte count per plan
\* file in plan order; on a failure, and before the end, download_complete
\* is not emitted.
C17_CompleteOnceOnSuccess ==
    /\ (dl_result.ok /\ Len(plan) > 0) =>
          /\ Completions = {Len(events)}
          /\ Len(events) >= 2
          /\ LET e == events[Len(events) - 1] IN
                /\ IsProgress(e)
                /\ e.current_file_index = Len(plan)
                /\ e.progress = Ratio(100, 1)
                /\ e.speed = 0
          /\ Len(dl_result.value) = Len(plan)
          /\ \A k \in 1..Len(plan) :
                dl_result.value[k] = VerifiedLen(plan[k].hash)
    /\ ~dl_result.ok => Completions = {}

\* A plan of two files of different lengths was downloaded.
C17_Witness ==
    /\ dl_result.ok
    /\ Len(plan) = 2
    /\ dl_result.value = <<2, 1>>

(***************************************************************************)
(* A synchronization pass: the diff pass, then the download of its plan    *)
(***************************************************************************)

\* The front end hands the plan that get_files_to_update returned to
\* download_all_files.
SyncDownload ==
    /\ d_pc = "idle"
    /\ returned # <<>>
    /\ returned[Len(returned)].ok
    /\ dl_pc = "off"
    /\ plan' = returned[Len(returned)].value
    /\ dl_pc' = "idle"
    /\ UNCHANGED <<fs, events, dl, uf, requests, dl_result>>
    /\ UNCHANGED nonDlVars

\* The manifests are those generate_hash_file writes: no path twice.
SyncInit ==
    /\ RerunInit
    /\ server.tag = "ok"
    /\ cache_file \in {CacheFileAbsent,
                       CacheFileOf(Insert(EmptyMap, PathClient,
                                          CachedFileInfo(Sha256(<<1>>), 1)))}

SyncNext ==
    \/ DiffNext
    \/ SyncDownload
    \/ DlNext

\* One diff pass and the download of the plan it returned.
SpecSync == SyncInit /\ [][SyncNext]_vars

(***************************************************************************)
(* Properties of a synchronization pass                                    *)
(***************************************************************************)

RECURSIVE PlanBytes(_)
\* The sum of the size fields of the records of a plan.
PlanBytes(p) == IF p = <<>> THEN 0 ELSE Head(p).size + PlanBytes(Tail(p))

\* C18: the total byte count of a plan is the sum of the size fields of its
\* records: file_check_completed reports that sum for the plan returned,
\* and every download_progress event of the download of a plan carries
\* that same sum as total_bytes.
C18_TotalIsSumOfSizes ==
    /\ (d_pc = "idle" /\ returned # <<>>) =>
          \A k \in 1..Len(events) :
              events[k].name = "file_check_completed" =>
                  events[k].total_size = PlanBytes(returned[Len(returned)].value)
    /\ \A k \in 1..Len(events) :
          IsProgress(events[k]) => events[k].total_bytes = PlanBytes(plan)

\* A plan of two records and three bytes was returned and downloaded.
C18_Witness ==
    /\ dl_result.ok
    /\ Len(plan) = 2
    /\ PlanBytes(plan) = 3
    /\ \E k \in 1..Len(events) :
          events[k].name = "file_check_completed" /\ events[k].total_size = 3
    /\ \E k \in 1..Len(events) : IsProgress(events[k])

(***************************************************************************)
(* The order of the plan                                                   *)
(***************************************************************************)

RECURSIVE Selected(_, _)
\* The records whose closure returned Some, from the first of the manifest
\* to the last.
Selected(fis, res) ==
    IF fis = <<>> THEN <<>>
    ELSE (IF Head(res) = "some" THEN <<Head(fis)>> ELSE <<>>)
         \o Selected(Tail(fis), Tail(res))

\* C19: the plan lists the selected records in the order of the remote
\* manifest, whatever the order in which the closures ended; for an empty
\* installation it is the whole manifest.
C19_PlanInManifestOrder ==
    (Returned /\ LastReturned.ok) =>
        /\ LastReturned.value = Selected(files, w_res)
        /\ (\A p \in DOMAIN fs : fs[p] = Absent) =>
              LastReturned.value = server.files

\* The plan for an empty installation and a manifest of two different
\* records.
C19_Witness ==
    /\ Returned
    /\ LastReturned.ok
    /\ \A p \in DOMAIN fs : fs[p] = Absent
    /\ Len(server.files) = 2
    /\ server.files[1].path # server.files[2].path
    /\ LastReturned.value = server.files

(***************************************************************************)
(* The observer                                                            *)
(***************************************************************************)

\* C20: a progress event that cannot be delivered is dropped and the
\* operation does not fail: no closure of the manifest scan returns the
\* error of window.emit, and generate_hash_file never returns it.
C20_UndeliveredEventIsDropped ==
    /\ "emit" \notin scan.failed
    /\ s_result.error # "emit"

(***************************************************************************)
(* The HTTP status                                                         *)
(***************************************************************************)

\* StatusCode::is_success
is_success(status) == status \in 200..299

\* C21: a download whose response carries a non-success status fails with
\* a network error, not with a hash-mismatch error, and aborts the call:
\* once such a response has arrived the call is over with that error.
C21_BadStatusIsNetworkError ==
    (uf # UfNone /\ ~is_success(uf.status)) =>
        /\ dl_pc = "done"
        /\ dl_result = Err("network")

(***************************************************************************)
(* The diff pass and its cache, interleaving by interleaving               *)
(***************************************************************************)

\* The entry of a path in the cache as it was loaded.  The cache file is
\* not written before the end of the pass.
LoadedEntry(path) == cache_get(load_cache_from_disk(cache_file), path)

\* C23: the plan and the hash stored per path are the same in every
\* interleaving of the closures.  In the interleaving where every closure
\* looks the cache up before any closure writes it, each record is decided
\* on the entry that was loaded; so each record is decided that way in
\* every interleaving, and an entry of the map is the loaded one or the
\* hash of the local file.
C23_PlanIndependentOfInterleaving ==
    d_pc = "par" =>
        /\ \A i \in Records :
              w_res[i] # "running" =>
                  (w_res[i] = "some") =
                      LadderIncludes(files[i], fs[files[i].path],
                                     LoadedEntry(files[i].path))
        /\ \A p \in DOMAIN cache :
              \/ SomeEntry(cache[p]) = LoadedEntry(p)
              \/ cache[p].hash = Sha256(fs[p].content)

\* The closure of record i went as far as calculate_file_hash: it was not
\* decided by exists(), metadata(), the lookup or the size.
Hashed(i) ==
    /\ w_pc[i] \in {"add", "done"}
    /\ before_write(files[i], fs[files[i].path], cached_info[i]) = "hash"

\* The cache file holds the map of the pass that returned last.
CacheSaved == cache_file = CacheFileOf(cache)

\* C24: a record whose local file was hashed has stored the hash of the
\* local file with its modification time, whether it is in the plan or not,
\* and the entry is in the map that is saved; a closure that is decided
\* without hashing leaves the map as it is.
C24_HashedFileIsCached ==
    /\ [](\A i \in Records :
            Hashed(i) =>
                /\ files[i].path \in DOMAIN cache
                /\ cache[files[i].path] =
                      CachedFileInfo(Sha256(fs[files[i].path].content),
                                     fs[files[i].path].modified))
    /\ [][/\ (\E i \in Records :
                 /\ w_pc[i] \in {"check", "lookup"}
                 /\ w_pc'[i] \in {"add", "done"}) => cache' = cache
          /\ (d_pc = "par" /\ d_pc' = "idle") =>
                 /\ cache' = cache
                 /\ cache_file' \in {save_cache_to_disk(cache_file, cache, o) :
                                        o \in SaveOutcomes}]_vars

C24_Witness ==
    /\ Returned
    /\ CacheSaved
    /\ \E i \in Records :
          /\ Hashed(i)
          /\ w_res[i] = "some"
          /\ \E j \in Records : ~Hashed(j) /\ w_res[j] = "none"

\* No closure has started: every record waits at the counter.
NoneEvaluated == \A i \in Records : w_pc[i] = "count" /\ w_res[i] = "running"

\* Every closure has returned.
AllEvaluated == \A i \in Records : w_pc[i] = "done"

\* C25: the cache file is read when the pass starts, before any record is
\* evaluated, and the map of the pass is what the file held (the empty map
\* when the file could not be loaded); the file is written only in the step
\* that ends the pass, after every record has been evaluated, never while a
\* closure runs; a write that succeeds leaves exactly the map of the pass in
\* the file, one that fails leaves the old file or a truncated one.
C25_CacheFileReadThenWritten ==
    [][/\ (d_pc = "idle" /\ d_pc' = "par") =>
             /\ NoneEvaluated'
             /\ cache_file' = cache_file
             /\ cache' = IF cache_file.state = "ok"
                         THEN cache_file.map ELSE EmptyMap
       /\ (d_pc = "par" /\ d_pc' = "par") => cache_file' = cache_file
       /\ (d_pc = "par" /\ d_pc' = "idle") =>
             /\ AllEvaluated
             /\ cache_file' \in {CacheFileOf(cache), cache_file,
                                 CacheFileCorrupt}
       /\ (d_pc = "idle" /\ d_pc' = "idle") => cache_file' = cache_file]_vars

\* A pass that found a cache file has ended and replaced it by another map.
C25_Witness ==
    /\ Returned
    /\ LastReturned.ok
    /\ CacheSaved
    /\ log = <<>>
    /\ cache # EmptyMap
    /\ \E i \in Records : Hashed(i) /\ cached_info[i] # NoEntry

(***************************************************************************)
(* The lock of the cache                                                   *)
(***************************************************************************)

\* The steps of the closure of record i.
Worker(i) ==
    /\ i \in Records
    /\ \/ W_Count(i)
       \/ W_Emit(i)
       \/ W_Check(i)
       \/ W_Lookup(i)
       \/ W_Write(i)
       \/ W_Insert(i)
       \/ W_Add(i)

\* The inputs with which the closures meet at the lock: the manifest was
\* fetched, version.ini is installed, Client/a.gpk is absent or readable,
\* and the cache file is absent or holds the current entry.
FairInit ==
    /\ DiffInit
    /\ server.tag = "ok"
    /\ fs[PathRoot] = LocalFile(<<1>>, 1, TRUE)
    /\ fs[PathClient] \in {Absent} \cup {LocalFile(c, 1, TRUE) : c \in {<<1>>, <<2>>}}
    /\ cache_file \in {CacheFileAbsent,
                       CacheFileOf(Insert(EmptyMap, PathClient,
                                          CachedFileInfo(Sha256(<<1>>), 1)))}

\* The pool runs every closure it has started, and a thread that waits for
\* the lock gets it once it stays free: each closure, and the function
\* around them, keeps taking the step it can take.
SpecDiffFair ==
    /\ FairInit
    /\ [][DiffNext]_vars
    /\ WF_vars(DiffCall)
    /\ \A i \in 1..MaxRecords : WF_vars(Worker(i))
    /\ WF_vars(DiffFinish)

\* The closure of record i waits for a guard.
Waits(i) ==
    \/ w_pc[i] = "check" /\ fs[files[i].path].kind = "file" /\ lock.writer # 0
    \/ w_pc[i] = "write" /\ (lock.readers # {} \/ lock.writer # 0)

\* C26: a write guard excludes every read guard and every other write
\* guard; a closure holds a read guard only during its lookup and the
\* write guard only during its insert, so it requests neither while it
\* holds one; as long as a closure has not returned, one of them can take a
\* step; and every closure returns.
C26_LockIsSafeAndLive ==
    /\ [](/\ lock.writer # 0 => lock.readers = {}
          /\ lock.readers \subseteq Records
          /\ lock.writer \in Records \cup {0}
          /\ \A i \in Records :
                /\ i \in lock.readers <=> w_pc[i] = "lookup"
                /\ lock.writer = i <=> w_pc[i] = "insert"
          /\ (d_pc = "par" /\ ~AllEvaluated) =>
                \E i \in Records : w_pc[i] # "done" /\ ~Waits(i))
    /\ (d_pc = "par") ~> AllEvaluated

\* Two lookups overlap.
C26_Witness ==
    /\ d_pc = "par"
    /\ Cardinality(lock.readers) >= 2

(***************************************************************************)
(* The counters of the diff pass                                           *)
(***************************************************************************)

\* The closures that have taken their value of the processed counter.
Counted == {i \in Records : w_pc[i] # "count"}

\* The closures that have returned Some(FileInfo) and added to the counters.
Added == {i \in Records : w_pc[i] = "done" /\ w_res[i] = "some"}

\* C27: the processed counter goes up by one, once for each record, so the
\* values the closures obtain are 1..N, each once: during the pass it
\* equals the number of closures that have taken their value, a step
\* changes it only by adding one for exactly one closure, two closures
\* never hold the same value, and it never goes down; at the end it is N
\* and the counter of files to update is the length of the plan.
C27_CountersCountOnce ==
    /\ [](/\ d_pc = "par" =>
                /\ processed_count = Cardinality(Counted)
                /\ files_to_update_count = Cardinality(Added)
                /\ \A i, j \in Records :
                      (w_pc[i] = "emit" /\ w_pc[j] = "emit" /\ i # j) =>
                          current_count[i] # current_count[j]
          /\ (Returned /\ LastReturned.ok) =>
                /\ processed_count = Len(files)
                /\ files_to_update_count = Len(LastReturned.value))
    /\ [][(d_pc = "par" /\ processed_count' # processed_count) =>
             /\ processed_count' = processed_count + 1
             /\ \E i \in Records :
                   /\ w_pc[i] = "count"
                   /\ w_pc'[i] # "count"
                   /\ w_pc'[i] = "emit" => current_count'[i] = processed_count'
                   /\ \A j \in Records \ {i} : w_pc'[j] = w_pc[j]]_vars

\* A pass over two records has ended with one of them in the plan.
C27_Witness ==
    /\ Returned
    /\ LastReturned.ok
    /\ processed_count = 2
    /\ files_to_update_count = 1

(***************************************************************************)
(* A diff pass over a long manifest                                        *)
(*                                                                         *)
(* The manifest lists up to MaxBulk files, none of which is installed, so  *)
(* that the processed counter passes multiples of 100.  The closures run   *)
(* on a pool of PoolSize threads that take the records in manifest order;  *)
(* a closure may stay behind while the other threads go on.                *)
(***************************************************************************)
MaxBulk == 101

PoolSize == 2

\* current_count % 100 == 0
ProgressEvery == 100

PathBulk(k) == <<"S1Game", "/", ToString(k)>>

\* The lengths around the multiples of ProgressEvery.
BulkSizes ==
    {n \in 1..MaxBulk : n % ProgressEvery \in {0, 1, ProgressEvery - 1}}

BulkManifest(n) ==
    [k \in 1..n |-> FileInfo(PathBulk(k), Sha256(<<1>>), 1, UrlOf(PathBulk(k)))]

BulkInit ==
    /\ \E n \in BulkSizes :
          /\ fs = [p \in {PathBulk(k) : k \in 1..n} |-> Absent]
          /\ server = [tag |-> "ok", files |-> BulkManifest(n)]
    /\ cache_file = CacheFileAbsent
    /\ d_pc = "idle"
    /\ files = <<>>
    /\ cache = EmptyMap
    /\ lock = Unlocked
    /\ processed_count = 0
    /\ files_to_update_count = 0
    /\ total_size = 0
    /\ w_pc = <<>>
    /\ current_count = <<>>
    /\ cached_info = <<>>
    /\ w_res = <<>>
    /\ events = <<>>
    /\ returned = <<>>
    /\ log = <<>>
    /\ DlOff
    /\ ScanOff
    /\ LaunchOff

\* The closures a thread of the pool is running.
InFlight == {i \in Records : w_pc[i] \notin {"count", "done"}}

\* A free thread of the pool takes the next record and starts its closure.
PoolTake(i) ==
    /\ w_pc[i] = "count"
    /\ i > 1 => w_pc[i - 1] # "count"
    /\ Cardinality(InFlight) < PoolSize
    /\ W_Count(i)

BulkNext ==
    \/ DiffCall
    \/ \E i \in Records : PoolTake(i)
    \/ \E i \in Records : W_Emit(i)
    \/ \E i \in Records : W_Check(i)
    \/ \E i \in Records : W_Add(i)
    \/ DiffFinish

SpecBulk == BulkInit /\ [][BulkNext]_vars

(***************************************************************************)
(* Properties of the progress events of the diff pass                      *)
(***************************************************************************)

\* The positions in events of the events named name.
Named(name) == {k \in 1..Len(events) : events[k].name = name}

\* The counter values for which the pass over n records reports progress.
Reported(n) == {c \in 1..n : c % 100 = 0 \/ c = n}

\* C28: a pass over N > 0 records emits file_check_progress for the
\* counter values that are multiples of 100 and for N: never for another
\* value, never twice for a value, and, once the pass is over, once for
\* each such value; file_check_completed is emitted once, after all of
\* them, and not before the pass is over.
C28_ProgressCadence ==
    (d_pc # "off" /\ server.tag = "ok" /\ Len(server.files) > 0) =>
        LET n == Len(server.files)
            P == Named("file_check_progress")
            C == Named("file_check_completed")
        IN /\ \A k \in P : events[k].current_count \in Reported(n)
           /\ \A k, l \in P :
                 events[k].current_count = events[l].current_count => k = l
           /\ d_pc = "par" => C = {}
           /\ returned = <<>> => C = {}
           /\ Returned =>
                 /\ {events[k].current_count : k \in P} = Reported(n)
                 /\ C = {Len(events)}

\* A pass over more than 100 records is over: it reported the hundredth
\* record and the last one.
C28_Witness ==
    /\ Returned
    /\ Len(files) > 100
    /\ Cardinality(Named("file_check_progress")) = 2
    /\ \E k \in Named("file_check_progress") : events[k].current_count = 100

(***************************************************************************)
(* Order of the progress events                                            *)
(***************************************************************************)

\* The processed-file count a progress event carries.
CountOf(e) ==
    IF e.name = "hash_file_progress" THEN e.processed_files
    ELSE e.current_count

\* C29: within a manifest scan and within a diff pass the progress events
\* are emitted in increasing order of the count they carry: of two progress
\* events of one kind the later carries the larger count.
C29_ProgressInCountOrder ==
    \A k, l \in 1..Len(events) :
        (/\ k < l
         /\ events[k].name = events[l].name
         /\ events[k].name \in {"hash_file_progress", "file_check_progress"}) =>
            CountOf(events[k]) < CountOf(events[l])

(***************************************************************************)
(* Cadence of the download events                                          *)
(***************************************************************************)

\* One turn of the chunk loop has been taken.
ChunkTaken == dl_pc = "stream" /\ dl_pc' = "stream" /\ uf'.stream # uf.stream

\* C30: a turn of the chunk loop emits at most one download_progress event,
\* and emits it only if 100 ms or more have passed since the previous
\* emission for the file (since the response arrived, when there was none)
\* or the bytes received equal the expected size; the step that verifies
\* the hash of a file emits the terminal event, whatever the clock says,
\* and it is taken once for a file, after the stream has ended; a failure
\* emits nothing.
C30_ProgressIsThrottled ==
    [][/\ (dl_pc = "file" /\ dl_pc' = "stream") =>
             /\ events' = events
             /\ uf'.last_update = uf'.elapsed
       /\ ChunkTaken =>
             /\ events' # events =>
                   /\ \/ uf'.elapsed - uf.last_update >= ProgressIntervalMs
                      \/ uf'.downloaded = uf.file_size
                   /\ Len(events') = Len(events) + 1
                   /\ SubSeq(events', 1, Len(events)) = events
                   /\ events'[Len(events')].name = "download_progress"
                   /\ events'[Len(events')].file_name = CurrentFile.path
                   /\ uf'.last_update = uf'.elapsed
             /\ events' = events => uf'.last_update = uf.last_update
       /\ (dl_pc # "advance" /\ dl_pc' = "advance") =>
             /\ dl_pc = "stream"
             /\ uf.stream = <<>>
             /\ Sha256(fs[CurrentFile.path].content) = CurrentFile.hash
             /\ events' = Append(events,
                   ProgressPayload(CurrentFile, Ratio(100, 1), 0,
                                   dl.downloaded_size + uf.downloaded))
       /\ (dl_pc = "advance" /\ dl_pc' # "advance") =>
             \/ dl'.index = dl.index + 1
             \/ dl_pc' = "done"
       /\ (dl_pc \in {"file", "stream"} /\ dl_pc' = "done") =>
             events' = events]_vars

\* A file has been verified whose last chunk came less than 100 ms after
\* the previous emission and did not complete the expected size: the chunk
\* was not reported, the file was.
C30_Witness ==
    /\ dl_pc = "advance"
    /\ uf.downloaded > 0
    /\ uf.last_update < uf.elapsed
    /\ events # <<>>
    /\ events[Len(events)].progress = Ratio(100, 1)

(***************************************************************************)
(* Launching the game                                                      *)
(*                                                                         *)
(* The commands handle_launch_game, reset_launch_state, handle_logout and  *)
(* set_auth_info, and the tasks handle_launch_game spawns.  Each command   *)
(* runs under the is_launching Mutex from its first statement to its last, *)
(* so it is one step; a task runs on the runtime's threads beside the      *)
(* commands and beside other tasks, so each access of a task to a static   *)
(* is a step.  The events a launch emits are not recorded.                 *)
(***************************************************************************)

\* The most launch tasks of a run.
MaxTasks == 2

\* The auth keys a login may set.
AuthKeys == {"k1", "k2"}

\* What load_config, exists() and to_str() make of the configuration.
Configs == {"ok", "noconfig", "noexe", "badpath"}

Task(pc, ticket) == [pc |-> pc, ticket |-> ticket]

Tasks == 1..Len(tasks)

\* Task t moves on to pc.
Goto(t, pc) == tasks' = [tasks EXCEPT ![t].pc = pc]

\* #[tauri::command] set_auth_info
set_auth_info ==
    /\ \E k \in AuthKeys : auth_info' = k
    /\ UNCHANGED <<is_launching, launch_mutex, GAME_RUNNING, game_status,
                   WINDOW_HANDLE, credentials, tasks, launched>>
    /\ UNCHANGED nonLaunchVars

\* #[tauri::command] handle_launch_game, with the configuration it finds.
handle_launch_game ==
    /\ launch_mutex = 0
    /\ Len(tasks) < MaxTasks
    /\ \E config \in Configs :
          IF is_launching
          THEN /\ launched' = Err("Game is already launching")
               /\ UNCHANGED <<is_launching, tasks>>
          ELSE IF game_status
          THEN /\ launched' = Err("Game is already running")
               /\ is_launching' = FALSE
               /\ UNCHANGED tasks
          ELSE IF config = "noconfig"
          THEN /\ launched' = Err("config")
               /\ is_launching' = TRUE
               /\ UNCHANGED tasks
          ELSE IF config = "noexe"
          THEN /\ launched' = Err("Game executable not found")
               /\ is_launching' = FALSE
               /\ UNCHANGED tasks
          ELSE IF config = "badpath"
          THEN /\ launched' = Err("Invalid path to game executable")
               /\ is_launching' = TRUE
               /\ UNCHANGED tasks
          ELSE /\ launched' = Ok("Game launch initiated")
               /\ is_launching' = TRUE
               /\ tasks' = Append(tasks, Task("spawned", auth_info))
    /\ UNCHANGED <<launch_mutex, GAME_RUNNING, game_status, WINDOW_HANDLE,
                   auth_info, credentials>>
    /\ UNCHANGED nonLaunchVars

\* #[tauri::command] reset_launch_state
reset_launch_state ==
    /\ launch_mutex = 0
    /\ is_launching' = FALSE
    /\ UNCHANGED <<launch_mutex, GAME_RUNNING, game_status, WINDOW_HANDLE,
                   auth_info, credentials, tasks, launched>>
    /\ UNCHANGED nonLaunchVars

\* #[tauri::command] handle_logout
handle_logout ==
    /\ launch_mutex = 0
    /\ is_launching' = FALSE
    /\ auth_info' = ""
    /\ UNCHANGED <<launch_mutex, GAME_RUNNING, game_status, WINDOW_HANDLE,
                   credentials, tasks, launched>>
    /\ UNCHANGED nonLaunchVars

\* The task starts: emit game_status_changed(true); run_game tests
\* is_game_running().
T_Run(t) ==
    /\ tasks[t].pc = "spawned"
    /\ Goto(t, IF GAME_RUNNING THEN "ended" ELSE "credentials")
    /\ UNCHANGED <<is_launching, launch_mutex, GAME_RUNNING, game_status,
                   WINDOW_HANDLE, auth_info, credentials, launched>>
    /\ UNCHANGED nonLaunchVars

\* run_game: set_credentials(..)
T_SetCredentials(t) ==
    /\ tasks[t].pc = "credentials"
    /\ credentials' = tasks[t].ticket
    /\ Goto(t, "enter")
    /\ UNCHANGED <<is_launching, launch_mutex, GAME_RUNNING, game_status,
                   WINDOW_HANDLE, auth_info, launched>>
    /\ UNCHANGED nonLaunchVars

\* launch_game: if GAME_RUNNING.load(SeqCst) { return Err(..) }
T_Enter(t) ==
    /\ tasks[t].pc = "enter"
    /\ Goto(t, IF GAME_RUNNING THEN "ended" ELSE "store")
    /\ UNCHANGED <<is_launching, launch_mutex, GAME_RUNNING, game_status,
                   WINDOW_HANDLE, auth_info, credentials, launched>>
    /\ UNCHANGED nonLaunchVars

\* launch_game: GAME_RUNNING.store(true, SeqCst)
T_Store(t) ==
    /\ tasks[t].pc = "store"
    /\ GAME_RUNNING' = TRUE
    /\ Goto(t, "send")
    /\ UNCHANGED <<is_launching, launch_mutex, game_status, WINDOW_HANDLE,
                   auth_info, credentials, launched>>
    /\ UNCHANGED nonLaunchVars

\* launch_game: GAME_STATUS_SENDER.send(true)
T_Send(t) ==
    /\ tasks[t].pc = "send"
    /\ game_status' = TRUE
    /\ Goto(t, "window")
    /\ UNCHANGED <<is_launching, launch_mutex, GAME_RUNNING, WINDOW_HANDLE,
                   auth_info, credentials, launched>>
    /\ UNCHANGED nonLaunchVars

\* create_and_run_game_window registers the class, creates the window,
\* stores its handle and notifies launch_game, which was waiting.
T_Window(t) ==
    /\ tasks[t].pc = "window"
    /\ WINDOW_HANDLE' = "Some"
    /\ Goto(t, "spawn")
    /\ UNCHANGED <<is_launching, launch_mutex, GAME_RUNNING, game_status,
                   auth_info, credentials, launched>>
    /\ UNCHANGED nonLaunchVars

\* RegisterClassExW or CreateWindowExW fails: create_and_run_game_window
\* returns without notify_one, and launch_game waits at tcs.notified().
T_WindowFails(t) ==
    /\ tasks[t].pc = "window"
    /\ Goto(t, "waiting")
    /\ UNCHANGED <<is_launching, launch_mutex, GAME_RUNNING, game_status,
                   WINDOW_HANDLE, auth_info, credentials, launched>>
    /\ UNCHANGED nonLaunchVars

\* Command::new(game_path).spawn() succeeds: the game runs.
T_Spawn(t) ==
    /\ tasks[t].pc = "spawn"
    /\ Goto(t, "game")
    /\ UNCHANGED <<is_launching, launch_mutex, GAME_RUNNING, game_status,
                   WINDOW_HANDLE, auth_info, credentials, launched>>
    /\ UNCHANGED nonLaunchVars

\* spawn()? returns the error: launch_game is left with the flag set and
\* the window open.
T_SpawnFails(t) ==
    /\ tasks[t].pc = "spawn"
    /\ Goto(t, "ended")
    /\ UNCHANGED <<is_launching, launch_mutex, GAME_RUNNING, game_status,
                   WINDOW_HANDLE, auth_info, credentials, launched>>
    /\ UNCHANGED nonLaunchVars

\* child.wait() returns: the game has exited (Ok), or wait()? returns the
\* error.
T_Exit(t) ==
    /\ tasks[t].pc = "game"
    /\ \E pc \in {"exited", "ended"} : Goto(t, pc)
    /\ UNCHANGED <<is_launching, launch_mutex, GAME_RUNNING, game_status,
                   WINDOW_HANDLE, auth_info, credentials, launched>>
    /\ UNCHANGED nonLaunchVars

\* launch_game: GAME_RUNNING.store(false, SeqCst)
T_Clear(t) ==
    /\ tasks[t].pc = "exited"
    /\ GAME_RUNNING' = FALSE
    /\ Goto(t, "sendfalse")
    /\ UNCHANGED <<is_launching, launch_mutex, game_status, WINDOW_HANDLE,
                   auth_info, credentials, launched>>
    /\ UNCHANGED nonLaunchVars

\* launch_game: GAME_STATUS_SENDER.send(false); PostMessageW(WM_GAME_EXITED)
T_SendFalse(t) ==
    /\ tasks[t].pc = "sendfalse"
    /\ game_status' = FALSE
    /\ Goto(t, "closing")
    /\ UNCHANGED <<is_launching, launch_mutex, GAME_RUNNING, WINDOW_HANDLE,
                   auth_info, credentials, launched>>
    /\ UNCHANGED nonLaunchVars

\* The window thread leaves its message loop, destroys the window and calls
\* reset_global_state(): GAME_RUNNING.store(false, SeqCst)
T_Close(t) ==
    /\ tasks[t].pc = "closing"
    /\ GAME_RUNNING' = FALSE
    /\ Goto(t, "closed")
    /\ UNCHANGED <<is_launching, launch_mutex, game_status, WINDOW_HANDLE,
                   auth_info, credentials, launched>>
    /\ UNCHANGED nonLaunchVars

\* reset_global_state() of the window thread: send(false), *handle = None;
\* handle.await returns and launch_game returns Ok(status).
T_Closed(t) ==
    /\ tasks[t].pc = "closed"
    /\ game_status' = FALSE
    /\ WINDOW_HANDLE' = "None"
    /\ Goto(t, "ended")
    /\ UNCHANGED <<is_launching, launch_mutex, GAME_RUNNING, auth_info,
                   credentials, launched>>
    /\ UNCHANGED nonLaunchVars

\* run_game has returned: emit game_status and game_ended;
\* is_launching_clone.lock().await; *is_launching = false.  The guard lives
\* to the end of the task.
T_End(t) ==
    /\ tasks[t].pc = "ended"
    /\ launch_mutex = 0
    /\ launch_mutex' = t
    /\ is_launching' = FALSE
    /\ Goto(t, "reset")
    /\ UNCHANGED <<GAME_RUNNING, game_status, WINDOW_HANDLE, auth_info,
                   credentials, launched>>
    /\ UNCHANGED nonLaunchVars

\* emit game_status_changed(false); reset_global_state():
\* GAME_RUNNING.store(false, SeqCst)
T_Reset(t) ==
    /\ tasks[t].pc = "reset"
    /\ GAME_RUNNING' = FALSE
    /\ Goto(t, "resetting")
    /\ UNCHANGED <<is_launching, launch_mutex, game_status, WINDOW_HANDLE,
                   auth_info, credentials, launched>>
    /\ UNCHANGED nonLaunchVars

\* reset_global_state(): send(false), *handle = None; the task ends and
\* the guard is dropped.
T_Done(t) ==
    /\ tasks[t].pc = "resetting"
    /\ game_status' = FALSE
    /\ WINDOW_HANDLE' = "None"
    /\ launch_mutex' = 0
    /\ Goto(t, "done")
    /\ UNCHANGED <<is_launching, GAME_RUNNING, auth_info, credentials,
                   launched>>
    /\ UNCHANGED nonLaunchVars

LaunchInit ==
    /\ LaunchOff
    /\ fs = EmptyMap
    /\ events = <<>>
    /\ DiffOff
    /\ DlOff
    /\ ScanOff

LaunchNext ==
    \/ set_auth_info
    \/ handle_launch_game
    \/ reset_launch_state
    \/ handle_logout
    \/ \E t \in Tasks : T_Run(t)
    \/ \E t \in Tasks : T_SetCredentials(t)
    \/ \E t \in Tasks : T_Enter(t)
    \/ \E t \in Tasks : T_Store(t)
    \/ \E t \in Tasks : T_Send(t)
    \/ \E t \in Tasks : T_Window(t)
    \/ \E t \in Tasks : T_WindowFails(t)
    \/ \E t \in Tasks : T_Spawn(t)
    \/ \E t \in Tasks : T_SpawnFails(t)
    \/ \E t \in Tasks : T_Exit(t)
    \/ \E t \in Tasks : T_Clear(t)
    \/ \E t \in Tasks : T_SendFalse(t)
    \/ \E t \in Tasks : T_Close(t)
    \/ \E t \in Tasks : T_Closed(t)
    \/ \E t \in Tasks : T_End(t)
    \/ \E t \in Tasks : T_Reset(t)
    \/ \E t \in Tasks : T_Done(t)

SpecLaunch == LaunchInit /\ [][LaunchNext]_vars

(***************************************************************************)
(* Properties of the launch                                                *)
(***************************************************************************)

\* The launches in progress: the tasks spawned that have not ended.
InProgress == {t \in Tasks : tasks[t].pc # "done"}

\* The tasks inside launch_game, past its test of GAME_RUNNING.
InLaunchGame ==
    {t \in Tasks : tasks[t].pc \in {"store", "send", "window", "waiting",
                                    "spawn", "game", "exited", "sendfalse",
                                    "closing", "closed"}}

\* C22: at most one launch is in progress at a time, in every interleaving
\* of the commands with the launch tasks: a launch request made while a
\* task has not ended or the game runs spawns no task, and no two tasks are
\* inside launch_game together.
C22_OneLaunchAtATime ==
    /\ Cardinality(InProgress) <= 1
    /\ Cardinality(InLaunchGame) <= 1

\* C32: whenever handle_launch_game returns an error and spawned no task in
\* that call, is_launching has the value it had before the call, so that a
\* failed attempt does not make later attempts fail with "Game is already
\* launching".
C32_FailedLaunchRestoresFlag ==
    [][(handle_launch_game /\ ~launched'.ok /\ tasks' = tasks)
          => is_launching' = is_launching]_vars

\* C35: after handle_logout returns no process-wide state holds the auth
\* key: the auth_key of GLOBAL_AUTH_INFO and the ticket of GLOBAL_CREDENTIALS
\* are both empty, whatever came before.
C35_LogoutClearsAuthKey ==
    [][handle_logout => (auth_info' = "" /\ credentials' = "")]_vars

(***************************************************************************)
(* The launch under a fair scheduler                                       *)
(***************************************************************************)

\* The steps of launch task t, the window thread's and the game's included.
TaskStep(t) ==
    /\ t \in Tasks
    /\ \/ T_Run(t)
       \/ T_SetCredentials(t)
       \/ T_Enter(t)
       \/ T_Store(t)
       \/ T_Send(t)
       \/ T_Window(t)
       \/ T_WindowFails(t)
       \/ T_Spawn(t)
       \/ T_SpawnFails(t)
       \/ T_Exit(t)
       \/ T_Clear(t)
       \/ T_SendFalse(t)
       \/ T_Close(t)
       \/ T_Closed(t)
       \/ T_End(t)
       \/ T_Reset(t)
       \/ T_Done(t)

\* The runtime polls every task that can run, the game process exits or
\* fails to start, and tokio's Mutex is handed over in the order of the
\* requests: a task keeps taking the step it can take.
SpecLaunchFair ==
    /\ LaunchInit
    /\ [][LaunchNext]_vars
    /\ \A t \in 1..MaxTasks : WF_vars(TaskStep(t))

\* Task t was spawned by an accepted handle_launch_game.
Accepted(t) == t \in Tasks

\* The launch of task t is over, and nothing shows a launch or a game.
Over(t) ==
    /\ t \in Tasks
    /\ tasks[t].pc = "done"
    /\ ~is_launching
    /\ ~GAME_RUNNING
    /\ ~game_status

\* C31: every launch accepted by handle_launch_game eventually ends, once
\* the game process has exited or failed to start, with is_launching false,
\* GAME_RUNNING false and the game-status channel holding false, also when
\* the window class cannot be registered or the window cannot be created.
C31_LaunchEnds == \A t \in 1..MaxTasks : Accepted(t) ~> Over(t)

(***************************************************************************)
(* The launcher window                                                     *)
(*                                                                         *)
(* While its process runs, the game sends WM_COPYDATA messages to the      *)
(* launcher window, and wnd_proc handles each on the window thread, beside *)
(* the commands and the tasks.  SendMessageW returns once the game has     *)
(* handled the response, so a call of wnd_proc is one step.                *)
(***************************************************************************)

\* The event ids of the messages: those wnd_proc matches, and others.
EventIds == {1, 3, 5, 7, 1000, 1001, 1016, 1020, 1021, 9}

\* The payloads of a message; handle_enter_lobby_or_world alone looks at
\* the payload, the other handlers take none or log it.
Payloads(event_id) == IF event_id = 7 THEN {<<>>, <<"w">>} ELSE {<<>>}

\* What get_server_list() returns: the encoded list, or the error of the
\* request, of the status, of the JSON or of the encoding.
ServerLists == {Ok(<<"servers">>), Err("Failed to get server list")}

\* What becomes of a panic that leaves wnd_proc, an extern "system" fn: the
\* process aborts, or the unwinding is stopped in the frames of the system
\* and the sender's SendMessageW returns without the value of wnd_proc.
Panics == {"abort", "unwound"}

\* account_name.encode_utf16().flat_map(|c| c.to_le_bytes().to_vec())
encode_utf16_le(s) == <<"utf16le", s>>

\* session_ticket.as_bytes()
as_bytes(s) == <<"utf8", s>>

\* send_response_message(recipient, sender, game_event, payload)
send_response_message(recipient, game_event, payload) ==
    [to |-> recipient, id |-> game_event, payload |-> payload]

\* handle_account_name_request: the account name GLOBAL_CREDENTIALS holds.
handle_account_name_request(recipient) ==
    <<send_response_message(recipient, 2, encode_utf16_le(credentials))>>

\* handle_session_ticket_request: the ticket GLOBAL_CREDENTIALS holds.
handle_session_ticket_request(recipient) ==
    <<send_response_message(recipient, 4, as_bytes(credentials))>>

\* handle_server_list_request, when get_server_list() returned Ok(list).
handle_server_list_request(recipient, list) ==
    <<send_response_message(recipient, 6, list)>>

\* handle_enter_lobby_or_world: the payload goes back, empty or not.
handle_enter_lobby_or_world(recipient, payload) ==
    IF payload = <<>>
    THEN <<send_response_message(recipient, 8, <<>>)>>
    ELSE <<send_response_message(recipient, 8, payload)>>

\* The responses wnd_proc sends for a message when none of its handlers
\* panics: handle_game_start, handle_game_event, handle_game_exit and
\* handle_game_crash send none.
responses(recipient, event_id, payload, list) ==
    CASE event_id = 1 -> handle_account_name_request(recipient)
      [] event_id = 3 -> handle_session_ticket_request(recipient)
      [] event_id = 5 -> handle_server_list_request(recipient, list.value)
      [] event_id = 7 -> handle_enter_lobby_or_world(recipient, payload)
      [] OTHER -> <<>>

\* A message wnd_proc has handled: the task whose window got it (its game
\* is the sender), what it sent, and the LRESULT it returned (-1: none) or
\* what became of its panic.
Handled(t, event_id, payload, sent, ret, panic) ==
    [task |-> t, event |-> event_id, payload |-> payload, sent |-> sent,
     ret |-> ret, panic |-> panic]

\* wnd_proc(h_wnd, WM_COPYDATA, w_param, l_param) on the window of task t,
\* sent by the game that task started.  expect() panics in
\* handle_server_list_request when get_server_list() failed, before
\* anything is sent; when the process aborts no task and no command runs
\* any more.
wnd_proc(t) ==
    /\ tasks[t].pc = "game"
    /\ \E event_id \in EventIds, list \in ServerLists, panic \in Panics :
       \E payload \in Payloads(event_id) :
          IF event_id = 5 /\ ~list.ok
          THEN /\ wnd' = Handled(t, event_id, payload, <<>>, -1, panic)
               /\ IF panic = "abort"
                  THEN /\ tasks' = [u \in Tasks |->
                                       Task("aborted", tasks[u].ticket)]
                       /\ launch_mutex' = -1
                  ELSE UNCHANGED <<tasks, launch_mutex>>
          ELSE /\ wnd' = Handled(t, event_id, payload,
                                 responses(t, event_id, payload, list), 1,
                                 "none")
               /\ UNCHANGED <<tasks, launch_mutex>>
    /\ UNCHANGED <<is_launching, GAME_RUNNING, game_status, WINDOW_HANDLE,
                   auth_info, credentials, launched>>
    /\ UNCHANGED <<sharedVars, diffVars, dlVars, scanVars>>

WindowNext ==
    \/ LaunchNext
    \/ \E t \in Tasks : wnd_proc(t)

SpecWindow == LaunchInit /\ [][WindowNext]_vars

(***************************************************************************)
(* Properties of the launcher window                                       *)
(***************************************************************************)

\* The id of the response to a request, 0 for the events without one.
ResponseId(event_id) ==
    IF event_id \in {1, 3, 5, 7} THEN event_id + 1 ELSE 0

\* C33: each WM_COPYDATA request with event id 1, 3, 5 or 7 is answered with
\* exactly one response, with id 2, 4, 6 or 8 respectively, sent to the
\* requesting window before wnd_proc returns; a request with another event
\* id produces no response; every WM_COPYDATA is acknowledged with 1.
C33_OneResponsePerRequest ==
    wnd # NoMessage =>
        /\ wnd.ret = 1
        /\ IF ResponseId(wnd.event) # 0
           THEN /\ Len(wnd.sent) = 1
                /\ wnd.sent[1].id = ResponseId(wnd.event)
                /\ wnd.sent[1].to = wnd.task
           ELSE wnd.sent = <<>>

\* The launcher window of task t exists: from its creation to DestroyWindow
\* on the window thread.
WindowExists(t) ==
    tasks[t].pc \in {"spawn", "game", "exited", "sendfalse", "closing"}

\* C34: every account-name or session-ticket response sent to the game
\* during a launch carries the values passed to the run_game call that
\* started that launch: the credentials are written before the launcher
\* window exists and do not change while it exists.
C34_ResponsesCarryLaunchCredentials ==
    /\ [](\A i \in 1..Len(wnd.sent) :
             /\ wnd.sent[i].id = 2 =>
                   wnd.sent[i].payload = encode_utf16_le(tasks[wnd.task].ticket)
             /\ wnd.sent[i].id = 4 =>
                   wnd.sent[i].payload = as_bytes(tasks[wnd.task].ticket))
    /\ [][(\E t \in Tasks : WindowExists(t)) => credentials' = credentials]_vars

(***************************************************************************)
(* The destination of a failed download                                    *)
(***************************************************************************)

\* The runtime keeps polling download_all_files, and every request, chunk
\* and write ends, with a value or with an error: the call takes its next
\* step as long as it has one.
SpecDownloadFair == DlInit /\ [][DlNext]_vars /\ WF_vars(DlNext)

\* update_file has failed on the first file of the plan.
FirstFileFailed ==
    /\ dl_pc = "done"
    /\ ~dl_result.ok
    /\ dl.index = 1

\* C36: when update_file fails (request error, stream interruption or hash
\* mismatch), the file that was installed at the destination path before the
\* call still has its pre-download content.  Stated of the first file of
\* the plan, whose pre-download content is that of the installation the
\* call starts from.
C36_FailureKeepsInstalledFile ==
    \A path \in DlPaths : \A before \in {LocalFile(<<2>>, 1, TRUE)} :
        (fs[path] = before) =>
            []((FirstFileFailed /\ plan[1].path = path) => fs[path] = before)

(***************************************************************************)
(* The numbers of the download events                                      *)
(***************************************************************************)

\* C37: in every download_progress event of a download_all_files call,
\* progress lies between 0 and 100 and downloaded_bytes does not exceed
\* total_bytes, for every server response, one without Content-Length or
\* with more bytes than the manifest size included.
C37_ProgressWithinBounds ==
    \A k \in 1..Len(events) :
        events[k].name = "download_progress" =>
            /\ events[k].progress.den > 0
            /\ 0 <= events[k].progress.num
            /\ events[k].progress.num <= 100 * events[k].progress.den
            /\ events[k].downloaded_bytes <= events[k].total_bytes

(***************************************************************************)
(* A diff pass after a synchronization                                     *)
(***************************************************************************)

\* The front end calls get_files_to_update again once download_all_files
\* has returned Ok for the plan of the first call.
SyncRecall ==
    /\ d_pc = "idle"
    /\ Len(returned) = 1
    /\ dl_pc = "done"
    /\ dl_result.ok
    /\ DiffEnter

ResyncNext ==
    \/ SyncNext
    \/ SyncRecall

\* A diff pass, the download of its plan, and a second diff pass against
\* the same remote manifest.
SpecResync == SyncInit /\ [][ResyncNext]_vars

\* The second get_files_to_update has returned, after the download of the
\* whole of the first plan succeeded.
Resynced ==
    /\ Len(returned) = 2
    /\ returned[1].ok
    /\ returned[2].ok
    /\ dl_result.ok
    /\ plan = returned[1].value

\* The content served for every record of the plan has the length the
\* record gives as its size.
SizesAsServed ==
    \A k \in 1..Len(plan) : dl_result.value[k] = plan[k].size

Hashable(f) ==
    {h \in {HostClient, HostData} :
        f[h].kind \in {"file", "symlink"} /\ f[h].readable}

\* The cache entries recorded from the files hs of the tree f, under the
\* paths a manifest gives them.
RecordedFrom(f, hs) ==
    [q \in {replace_backslash(h) : h \in hs} |->
        LET h == CHOOSE x \in hs : replace_backslash(x) = q IN
        CachedFileInfo(Sha256(f[h].content), f[h].modified)]

\* The cache files whose entries were recorded from the tree f: no file,
\* or entries for some of its files.
RecordedCaches(f) ==
    {CacheFileAbsent}
    \cup {CacheFileOf(RecordedFrom(f, hs)) : hs \in SUBSET Hashable(f)}

\* No file of the installation was written since the scan.
Unchanged == \A p \in DOMAIN fs : fs[p].modified # WrittenAt

\* Another program writes a file of the installation between the scan and
\* the diff pass.
Modify ==
    /\ s_pc = "done"
    /\ d_pc \in {"off", "idle"}
    /\ returned = <<>>
    /\ Unchanged
    /\ \E h \in Hashable(fs) :
          fs' = [fs EXCEPT ![h] = LocalFile(<<3>>, WrittenAt, TRUE)]
    /\ UNCHANGED <<events, diffVars, dlVars, scanVars, launchVars,
                   windowVars>>

\* The manifest generate_hash_file wrote is what the hash-file URL serves.
Publish ==
    /\ s_pc = "done"
    /\ s_result.ok
    /\ d_pc = "off"
    /\ server' = [tag |-> "ok", files |-> hash_file.files]
    /\ d_pc' = "idle"
    /\ UNCHANGED <<fs, cache_file, files, cache, processed_count,
                   files_to_update_count, total_size, w_pc, current_count,
                   cached_info, w_res, events, returned, log>>
    /\ UNCHANGED <<lock, nonDiffVars>>

SelfCheckInit ==
    /\ fs \in Trees
    /\ events = <<>>
    /\ s_pc = "idle"
    /\ scan = ScanNone
    /\ sw = EmptyMap
    /\ hash_file \in {HashFileAbsent, HashFileOf(<<>>)}
    /\ s_result = NoResult
    /\ cache_file \in RecordedCaches(fs)
    /\ server = [tag |-> "unreachable", files |-> <<>>]
    /\ d_pc = "off"
    /\ files = <<>>
    /\ cache = EmptyMap
    /\ lock = Unlocked
    /\ processed_count = 0
    /\ files_to_update_count = 0
    /\ total_size = 0
    /\ w_pc = <<>>
    /\ current_count = <<>>
    /\ cached_info = <<>>
    /\ w_res = <<>>
    /\ returned = <<>>
    /\ log = <<>>
    /\ DlOff
    /\ LaunchOff

SelfCheckNext ==
    \/ ScanNext
    \/ Publish
    \/ Modify
    \/ DiffNext

\* A manifest scan, then a diff pass of the same installation, unchanged or
\* with a file written since, against the manifest the scan wrote.
SpecSelfCheck == SelfCheckInit /\ [][SelfCheckNext]_vars

\* C39: a diff pass of an installation against the manifest that
\* generate_hash_file produced from that same, unchanged installation
\* returns an empty plan, for every initial content of the cache whose
\* entries were recorded from that installation.
C39_OwnManifestGivesEmptyPlan ==
    (Returned /\ LastReturned.ok /\ Unchanged) => LastReturned.value = <<>>

\* The pass over a manifest of two records has returned; one record was
\* settled by its cache entry, the other was hashed.
C39_Witness ==
    /\ Returned
    /\ Unchanged
    /\ LastReturned.ok
    /\ LastReturned.value = <<>>
    /\ Len(files) = 2
    /\ \E i \in Records : cached_info[i].present
    /\ \E i \in Records : ~cached_info[i].present /\ w_res[i] = "none"

=============================================================================
